---------------------------- MODULE Spec2Model ----------------------------
(***************************************************************************)
(* Model of the justclick board generator (src/rng.js, src/board_gen.js,   *)
(* second IIFE "MOTIF + STRUCT ANCHORED FINALIZE", which is the one that   *)
(* ends up bound to JC.buildBoard).                                        *)
(*                                                                         *)
(* JavaScript numbers that take part in 32-bit operations are pairs        *)
(* <<hi, lo>> with value hi * 65536 + lo and lo in 0..65535.  An int32 has *)
(* hi in -32768..32767, a uint32 has hi in 0..65535, and a plain (double)  *)
(* sum that was not converted back may have a larger hi.  A value returned *)
(* by rand() is the pair n standing for the quotient n / 4294967296.       *)
(***************************************************************************)
EXTENDS Integers, Sequences, FiniteSets, TLC

VARIABLES
    rngSeedStr,   \* makeRng: the seedStr argument of the last call
    rngSeed,      \* makeRng: field seed of the returned object (the string s)
    rngA,         \* mulberry32: the closure variable a
    rngOut,       \* the value returned by the last rand() call
    rngCalls,     \* number of rand() calls made on the current stream
    fnIn,         \* a function of board_gen.js under study: its arguments
    fnOut,        \* ... and the value it returned (NoValue before the call)
    pc,           \* buildBoard: the step that runs next
    cfg,          \* buildBoard: the argument config
    provider,     \* how d3.Delaunay answers during this call (see AnswerOf)
    N,            \* buildBoard: const N
    relaxIters,   \* buildBoard: const relaxIters
    area,         \* buildBoard: areaL, areaM, areaR
    alloc,        \* buildBoard: const alloc (allocN of the regions)
    motifPlan,    \* buildBoard: const motifPlan, as the list of its types
    targetRegions,\* buildBoard: const targetRegions, as the list of their keys
    mi,           \* buildBoard: index i of the assignment loop, from 1
    usedS,        \* buildBoard: let usedS
    motifParams,  \* the values param of the assignment loop, in order
    regionStruct, \* buildBoard: const regionStruct
    regionZones,  \* buildBoard: const regionZones
    ri,           \* index in Keys of the next buildRegionPoints call
    pts,          \* buildBoard: L.pts, M.pts, R.pts
    fixedMask,    \* buildBoard: L.fixedMask, M.fixedMask, R.fixedMask
    relaxRuns,    \* Lloyd iterations run on each region
    cellsAll,     \* buildBoard: const cellsAll
    result,       \* the value returned by buildBoard (NoValue before)
    tieOrder,     \* the order a sort leaves keys in when their exact values tie
    history,      \* the calls of buildBoard that returned: input and outcome
    fin,          \* steps 8 and 9 of buildBoard for one region: the sites and
                  \* the position in the code (NoValue elsewhere)
    bis,          \* clampToPlanesByBisection: lo, hi and i of a call under
                  \* study (NoValue elsewhere)
    game,         \* main.js: the object game and the timers of the page
                  \* (NoValue elsewhere)
    run,          \* buildBoard followed one loop iteration at a time: the
                  \* position in the code and the loop counters (NoValue
                  \* elsewhere)
    rlx           \* the value of config.relaxIters as JavaScript holds it, the
                  \* constant relaxIters made of it and the Lloyd iterations
                  \* run with it (NoValue elsewhere)

rngVars == <<rngSeedStr, rngSeed, rngA, rngOut, rngCalls>>
fnVars == <<fnIn, fnOut>>
boardVars == <<pc, cfg, provider, N, relaxIters, area, alloc, motifPlan, targetRegions,
               mi, usedS, motifParams, regionStruct, regionZones, ri, pts,
               fixedMask, relaxRuns, cellsAll, result>>
detVars == <<tieOrder, history>>

vars == <<rngSeedStr, rngSeed, rngA, rngOut, rngCalls, fnIn, fnOut,
          pc, cfg, provider, N, relaxIters, area, alloc, motifPlan,
          targetRegions, mi, usedS, motifParams, regionStruct, regionZones, ri, pts,
          fixedMask, relaxRuns, cellsAll, result, tieOrder, history, fin,
          bis, game, run, rlx>>

(***************************************************************************)
(* Bounds of the model.                                                    *)
(***************************************************************************)
MaxSeedLen == 3      \* longest seed string given to makeRng
MaxCalls == 4        \* rand() calls followed on one stream
MaxAllocN == 12      \* largest totalN given to allocateByArea on its own
MaxArea == 4         \* largest region area given to allocateByArea on its own
MaxMotifPoints == 16 \* largest maxPoints given to chooseMotifParam on its own
MaxSmallN == 4       \* largest pieceCount below 8 given to buildBoard
MaxShuffle == 3      \* longest label shuffle followed for every stream of draws
MaxRuns == 2         \* calls of buildBoard followed one after the other

(***************************************************************************)
(* 32-bit arithmetic of JavaScript                                         *)
(***************************************************************************)
W16 == 65536

RECURSIVE XorBits(_, _, _)
XorBits(a, b, n) ==
    IF n = 0 THEN 0
    ELSE ((a + b) % 2) + 2 * XorBits(a \div 2, b \div 2, n - 1)

RECURSIVE OrBits(_, _, _)
OrBits(a, b, n) ==
    IF n = 0 THEN 0
    ELSE (IF (a % 2) + (b % 2) > 0 THEN 1 ELSE 0)
         + 2 * OrBits(a \div 2, b \div 2, n - 1)

\* bitwise operations on 4-bit digits, tabulated once
XorNib == [x \in 0..15, y \in 0..15 |-> XorBits(x, y, 4)]
OrNib == [x \in 0..15, y \in 0..15 |-> OrBits(x, y, 4)]

\* bitwise operations on 16-bit halves
Xor16(a, b) ==
    XorNib[a % 16, b % 16]
    + 16 * XorNib[(a \div 16) % 16, (b \div 16) % 16]
    + 256 * XorNib[(a \div 256) % 16, (b \div 256) % 16]
    + 4096 * XorNib[a \div 4096, b \div 4096]
Or16(a, b) ==
    OrNib[a % 16, b % 16]
    + 16 * OrNib[(a \div 16) % 16, (b \div 16) % 16]
    + 256 * OrNib[(a \div 256) % 16, (b \div 256) % 16]
    + 4096 * OrNib[a \div 4096, b \div 4096]

Pow2(k) ==
    <<1, 2, 4, 8, 16, 32, 64, 128, 256, 512, 1024, 2048, 4096, 8192,
      16384, 32768, 65536>>[k + 1]

\* ToUint32 / ToInt32 of a number hi * 65536 + lo
ToUint32(x) == <<x[1] % W16, x[2]>>
ToInt32(x) ==
    LET h == x[1] % W16
    IN  <<IF h >= 32768 THEN h - W16 ELSE h, x[2]>>

\* x ^ y and x | y : operands converted with ToInt32, result is an int32
Xor32(x, y) ==
    ToInt32(<<Xor16(x[1] % W16, y[1] % W16), Xor16(x[2], y[2])>>)
Or32(x, y) ==
    ToInt32(<<Or16(x[1] % W16, y[1] % W16), Or16(x[2], y[2])>>)

\* x >>> k for 0 <= k <= 31 : result is a uint32
Ushr32(x, k) ==
    LET u == ToUint32(x)
    IN  IF k >= 16 THEN <<0, u[1] \div Pow2(k - 16)>>
        ELSE <<u[1] \div Pow2(k),
               (u[2] \div Pow2(k)) + (u[1] % Pow2(k)) * Pow2(16 - k)>>

\* x << k for 0 < k < 16 : result is an int32
Shl32(x, k) ==
    LET u == ToUint32(x)
    IN  ToInt32(<<(u[1] % Pow2(16 - k)) * Pow2(k) + (u[2] \div Pow2(16 - k)),
                  (u[2] % Pow2(16 - k)) * Pow2(k)>>)

\* x + y on numbers: exact, not wrapped
Add(x, y) ==
    LET s == x[2] + y[2]
    IN  <<x[1] + y[1] + (s \div W16), s % W16>>

\* (a * b) mod 65536 and (a * b) div 65536 for a, b in 0..65535, by bytes
MulLo16(a, b) ==
    LET a0 == a % 256  a1 == a \div 256
        b0 == b % 256  b1 == b \div 256
    IN  (a0 * b0 + ((a1 * b0 + a0 * b1) % 256) * 256) % W16
MulHi16(a, b) ==
    LET a0 == a % 256  a1 == a \div 256
        b0 == b % 256  b1 == b \div 256
    IN  ((a0 * b0 + (a1 * b0 + a0 * b1) * 256) \div W16) + a1 * b1

\* Math.imul(x, y) : low 32 bits of the product, as an int32
Imul(x, y) ==
    LET u == ToUint32(x)
        v == ToUint32(y)
    IN  ToInt32(<<MulHi16(u[2], v[2]) + MulLo16(u[1], v[2]) + MulLo16(u[2], v[1]),
                  MulLo16(u[2], v[2])>>)

Num(n) == <<n \div W16, n % W16>>

(***************************************************************************)
(* rng.js                                                                  *)
(***************************************************************************)
SPACE == 32

\* String.prototype.trim on a sequence of char codes (only the space is
\* used as white space in the seeds of the model)
RECURSIVE TrimLeft(_)
TrimLeft(s) ==
    IF Len(s) > 0 /\ Head(s) = SPACE THEN TrimLeft(Tail(s)) ELSE s
RECURSIVE TrimRight(_)
TrimRight(s) ==
    IF Len(s) > 0 /\ s[Len(s)] = SPACE
    THEN TrimRight(SubSeq(s, 1, Len(s) - 1)) ELSE s
Trim(s) == TrimRight(TrimLeft(s))

\* Then(e, F) is F(e), with e evaluated to a value before F is applied
Then(e, F(_)) == CHOOSE r \in {F(v) : v \in {e}} : TRUE

\* xmur3(str): one round of the loop over the characters, c = charCodeAt(i)
Xmur3Round(h, c) ==
    LET h1 == Imul(Xor32(h, Num(c)), <<52382, 11601>>)
    IN  Or32(Shl32(h1, 13), Ushr32(h1, 19))

\* xmur3(str): the hash state h after the loop over the characters
RECURSIVE Xmur3Loop(_, _, _)
Xmur3Loop(h, str, i) ==
    IF i > Len(str) THEN h
    ELSE Then(Xmur3Round(h, str[i]), LAMBDA h2 : Xmur3Loop(h2, str, i + 1))

Xmur3Init(str) == Xmur3Loop(Xor32(<<27145, 58983>>, Num(Len(str))), str, 1)

\* the first call of the function returned by xmur3
Xmur3Next(h) ==
    LET h1 == Imul(Xor32(h, Ushr32(h, 16)), <<34283, 51819>>)
        h2 == Imul(Xor32(h1, Ushr32(h1, 13)), <<49842, 44597>>)
        h3 == Xor32(h2, Ushr32(h2, 16))
    IN  Ushr32(h3, 0)

\* one call of the function returned by mulberry32(a): the new a
MulberryStep(a) == Add(a, <<27947, 31221>>)

\* a last conversion that leaves the int32 as it is
MulberryFinalSigned(t) == ToInt32(t)

\* the last conversion of mulberry32: (...) >>> 0, read as a fraction of 2^32
MulberryFinal(t) == Ushr32(t, 0)

\* one call of the function returned by mulberry32(a): the returned value,
\* computed from the updated a
MulberryOut(a) ==
    LET t0 == a
        t1 == Imul(Xor32(t0, Ushr32(t0, 15)), Or32(t0, Num(1)))
        t2 == Xor32(t1, Add(t1, Imul(Xor32(t1, Ushr32(t1, 7)), Or32(t1, Num(61)))))
    IN  MulberryFinal(Xor32(t2, Ushr32(t2, 14)))

\* makeRng(seedStr), clock = String(Date.now()) at the time of the call
SeedOf(seedStr, clock) == IF Len(Trim(seedStr)) > 0 THEN Trim(seedStr) ELSE clock
\* a stream state kept from the call before, when there was one
MakeRngStateCached(seedStr, clock) ==
    IF rngCalls >= 0 THEN rngA
    ELSE Then(Xmur3Init(SeedOf(seedStr, clock)), LAMBDA h : Xmur3Next(h))

\* mulberry32(h()) of makeRng: the initial a
MakeRngState(seedStr, clock) ==
    Then(Xmur3Init(SeedOf(seedStr, clock)), LAMBDA h : Xmur3Next(h))

NoOut == <<0, 0>>
NoValue == [none |-> TRUE]

\* Math.floor(rand() * m) for a small positive integer m (the product of a
\* 32-bit fraction and m is exact in a double)
FloorMul(d, m) == (d[1] * m + ((d[2] * m) \div W16)) \div W16

\* rand() < 0.5
LessHalf(d) == d[1] < 32768

\* values of rand() followed by buildBoard: 0, 1/2 and the largest one
DrawSet == {<<0, 0>>, <<32768, 0>>, <<65535, 65535>>}

\* values of rand() given to a function on its own: the multiples of 1/8 and
\* the largest one
FineDrawSet == {<<8192 * j, 0>> : j \in 0..7} \cup {<<65535, 65535>>}

Max(a, b) == IF a >= b THEN a ELSE b
Min(a, b) == IF a <= b THEN a ELSE b

(***************************************************************************)
(* board_gen.js : allocateByArea                                           *)
(***************************************************************************)
Regions == {"left", "mid", "right"}
Keys == <<"left", "mid", "right">>      \* Object.keys(areas)

Total(base) == base.left + base.mid + base.right

\* the orders in which Object.keys / a sort may leave three keys
KeyOrders ==
    {o \in [1..3 -> Regions] : \A i, j \in 1..3 : i # j => o[i] # o[j]}

Index(o, k) == CHOOSE p \in 1..3 : o[p] = k

\* frac.sort((p, q) => q.r - p.r): the keys by decreasing remainder.  rem[k]
\* is the numerator of the fractional part x - f over the common denominator
\* sumA, compared exactly; fractions that are exactly equal are left in the
\* order tie, because the doubles x - f computed for them need not be equal
\* (tie = Keys is the order of a stable sort of equal doubles).
FracOrder(rem, tie) ==
    LET before(i, j) == rem[i] > rem[j]
                        \/ (rem[i] = rem[j] /\ Index(tie, i) < Index(tie, j))
        pos(j) == 1 + Cardinality({i \in Regions : i # j /\ before(i, j)})
    IN  [p \in 1..3 |-> CHOOSE j \in Regions : pos(j) = p]

\* while (extra > 0) { base[frac[idx % frac.length].k] += 1; ... }
\* a distribution that hands every extra unit to the first key
GiveExtraFirst(base, order, extra, idx) ==
    IF extra <= 0 THEN base ELSE [base EXCEPT ![order[1]] = @ + extra]

RECURSIVE GiveExtra(_, _, _, _)
GiveExtra(base, order, extra, idx) ==
    IF extra <= 0 THEN base
    ELSE LET pick == order[(idx % 3) + 1]
         IN  GiveExtra([base EXCEPT ![pick] = @ + 1], order, extra - 1, idx + 1)

\* while (base.left + base.mid + base.right > totalN) { ... }
RECURSIVE TrimOver(_, _, _)
TrimOver(base, areas, totalN) ==
    IF Total(base) <= totalN THEN base
    ELSE LET k == IF areas.left >= areas.mid /\ areas.left >= areas.right
                  THEN "left"
                  ELSE IF areas.right >= areas.left /\ areas.right >= areas.mid
                       THEN "right" ELSE "mid"
         IN  IF base[k] > 1 THEN TrimOver([base EXCEPT ![k] = @ - 1], areas, totalN)
             ELSE IF base.mid > 1
                  THEN TrimOver([base EXCEPT !.mid = @ - 1], areas, totalN)
             ELSE IF base.left > 1
                  THEN TrimOver([base EXCEPT !.left = @ - 1], areas, totalN)
             ELSE IF base.right > 1
                  THEN TrimOver([base EXCEPT !.right = @ - 1], areas, totalN)
             ELSE base

\* base[k] after the proportional loop: baseMin + Math.floor(remain * a / sumA)
FloorShare(remain, a, sumA) == 1 + ((remain * a) \div (IF sumA = 0 THEN 1 ELSE sumA))

allocateByArea(totalN, areas, tie) ==
    LET sumA == areas.left + areas.mid + areas.right
        den == IF sumA = 0 THEN 1 ELSE sumA
        remain == totalN - 3
        base == [k \in Regions |-> FloorShare(remain, areas[k], sumA)]
        rem == [k \in Regions |-> (remain * areas[k]) % den]
        extra == totalN - Total(base)
    IN  IF totalN <= 0 THEN [left |-> 0, mid |-> 0, right |-> 0]
        ELSE IF totalN = 1 THEN [left |-> 0, mid |-> 1, right |-> 0]
        ELSE IF totalN = 2 THEN [left |-> 1, mid |-> 0, right |-> 1]
        ELSE TrimOver(GiveExtra(base, FracOrder(rem, tie), extra, 0), areas, totalN)

(***************************************************************************)
(* board_gen.js : motifs                                                   *)
(***************************************************************************)
MotifTypes == 1..3      \* 1: n-gon, 2: n-gon + center, 3: k x n grid

motifMinPoints(type) == IF type = 1 THEN 3 ELSE IF type = 2 THEN 4 ELSE 3

\* the list feasible of chooseMotifParam, in the order of its two loops
GridPairs == <<[k |-> 1, n |-> 3], [k |-> 1, n |-> 4], [k |-> 1, n |-> 5],
               [k |-> 2, n |-> 3], [k |-> 2, n |-> 4], [k |-> 2, n |-> 5],
               [k |-> 3, n |-> 3], [k |-> 3, n |-> 4], [k |-> 3, n |-> 5]>>

RECURSIVE Feasible(_, _)
Feasible(maxPoints, i) ==
    IF i > Len(GridPairs) THEN <<>>
    ELSE (IF GridPairs[i].k * GridPairs[i].n <= maxPoints
          THEN <<GridPairs[i]>> ELSE <<>>) \o Feasible(maxPoints, i + 1)

\* an upper end that forgets the center point of type 2
RingMaxNoCenter(type, maxPoints) == Min(8, maxPoints)

\* the upper end nMax of the n-gon sizes that fit in maxPoints
RingMax(type, maxPoints) ==
    IF type = 1 THEN Min(8, maxPoints) ELSE Min(8, maxPoints - 1)

\* the declared point count of a motif parameter
MotifCount(type, k, n) ==
    IF type = 1 THEN n ELSE IF type = 2 THEN n + 1 ELSE k * n

\* chooseMotifParam(type, maxPoints, rand) where d is the value of the one
\* rand() call it makes (none is made when the grid has no feasible pair)
chooseMotifParam(type, maxPoints0, d) ==
    LET maxPoints == Max(0, maxPoints0)
        feasible == Feasible(maxPoints, 1)
        pick == feasible[FloorMul(d, Len(feasible)) + 1]
        n12 == 3 + FloorMul(d, Max(1, RingMax(type, maxPoints) - 3 + 1))
    IN  IF type \in {1, 2}
        THEN [type |-> type, k |-> 0, n |-> n12, count |-> MotifCount(type, 0, n12)]
        ELSE IF Len(feasible) = 0
             THEN [type |-> 3, k |-> 1, n |-> 3, count |-> 3]
             ELSE [type |-> 3, k |-> pick.k, n |-> pick.n,
                   count |-> MotifCount(3, pick.k, pick.n)]

\* number of rand() calls made by chooseMotifParam
ChooseDraws(type, maxPoints) ==
    IF type = 3 /\ Len(Feasible(Max(0, maxPoints), 1)) = 0 THEN 0 ELSE 1

\* buildMotifInRegion: the list pts.  A point is known by the loop indices
\* that produced it; its coordinates are not part of this model.
RingPts(n) == [i \in 1..n |-> [src |-> "ring", row |-> 0, col |-> i - 1]]
GridPts(k, n) ==
    [i \in 1..(k * n) |->
        [src |-> "grid", row |-> (i - 1) \div n, col |-> (i - 1) % n]]
CenterPt == [src |-> "center", row |-> 0, col |-> 0]

buildMotifInRegion(motifParam) ==
    [structPts |->
        IF motifParam.type \in {1, 2}
        THEN RingPts(motifParam.n)
             \o (IF motifParam.type = 2 THEN <<CenterPt>> ELSE <<>>)
        ELSE GridPts(motifParam.k, motifParam.n),
     avoidZone |-> [type |-> motifParam.type]]

\* rand() calls made by buildMotifInRegion in a region whose fan of
\* triangles is not empty: sampleUniformInConvexPoly (1 + 2) and phi
MotifBuildDraws == 4

(***************************************************************************)
(* board_gen.js : buildBoard                                               *)
(***************************************************************************)
\* config.pieceCount is an integer; config.relaxIters is <<>> when the field
\* is absent or not a finite number and <<k>> when it is the number k
PieceCountRaw(config) == config.pieceCount
PieceCountOf(config) == Max(1, config.pieceCount)
RelaxItersOf(config) ==
    IF config.relaxIters = <<>> THEN 1 ELSE Max(0, config.relaxIters[1])

\* rand() + eps of generateParallelLines in units of 2^-20 (eps = 1e-6 is one
\* unit)
Weight(d) == d[1] * 16 + (d[2] \div 4096) + 1

\* generateParallelLines, regionPolyFromPlanes and polygonArea: the areas of
\* the three regions in thousandths of the area of the square, for the
\* widths w0, w1 and L - w0 - w1 cut by lines of normal (0, 1); minFrac is
\* 180 thousandths and rem is 460.  ds[1] is the draw of theta, ds[2..4] are
\* r0, r1, r2.
RegionAreas(ds) ==
    LET rs == Weight(ds[2]) + Weight(ds[3]) + Weight(ds[4])
        w0 == 180 + ((460 * Weight(ds[2])) \div rs)
        w1 == 180 + ((460 * Weight(ds[3])) \div rs)
    IN  [left |-> w0, mid |-> w1, right |-> 1000 - w0 - w1]

LinesDraws == 4

pickMotifType123(d) ==
    LET r == FloorMul(d, 3)
    IN  IF r = 0 THEN 1 ELSE IF r = 1 THEN 2 ELSE 3

\* a swap that loses the element at i
SwapLossy(arr, i, j) == [arr EXCEPT ![i] = arr[j]]

\* [arr[i], arr[j]] = [arr[j], arr[i]]
Swap(arr, i, j) == [arr EXCEPT ![i] = arr[j], ![j] = arr[i]]

\* the loop of shuffleInPlace from index i (0-based) down to 1, the next
\* rand() value being ds[t]
RECURSIVE ShuffleLoop(_, _, _, _)
ShuffleLoop(arr, i, t, ds) ==
    IF i <= 0 THEN arr
    ELSE Then(Swap(arr, i + 1, FloorMul(ds[t], i + 1) + 1),
              LAMBDA a : ShuffleLoop(a, i - 1, t + 1, ds))

shuffleInPlace(arr, ds) == ShuffleLoop(arr, Len(arr) - 1, 1, ds)

\* a fallback plan of a single motif
FallbackTypesOne(t) == <<t>>

\* the types of the three motifs of a board of more than 70 pieces that is
\* not of 100 pieces
FallbackTypes(t) == <<t, t, t>>

buildMotifPlan(P, ds) ==
    IF P = 20 THEN <<pickMotifType123(ds[1])>>
    ELSE IF P = 50 THEN <<3, IF LessHalf(ds[1]) THEN 1 ELSE 2>>
    ELSE IF P = 100 THEN shuffleInPlace(<<1, 2, 3>>, ds)
    ELSE IF P <= 30 THEN <<pickMotifType123(ds[1])>>
    ELSE IF P <= 70 THEN <<3, IF LessHalf(ds[1]) THEN 1 ELSE 2>>
    ELSE FallbackTypes(pickMotifType123(ds[1]))

PlanDraws(P) == IF P = 100 THEN 2 ELSE 1

\* the regions left in the order of the keys
ByAreaUnsorted(areas) == Keys

\* regions.slice().sort((a, b) => b.area - a.area): stable, largest first
ByArea(areas) == FracOrder(areas, Keys)

\* byArea.slice(0, Math.min(motifPlan.length, 3))
TargetRegions(areas, plan) == SubSeq(ByArea(areas), 1, Min(Len(plan), 3))

\* Math.floor(0.4 * N)
Smax(n) == (4 * n) \div 10

RECURSIVE MinRemain(_, _)
MinRemain(plan, j) ==
    IF j > Len(plan) THEN 0
    ELSE motifMinPoints(plan[j]) + MinRemain(plan, j + 1)

\* budgetMax of the sequential budgeted assignment
BudgetMax(minP, smax, used, minRemain) == Max(minP, smax - used - minRemain)

\* capMax of the sequential budgeted assignment
CapMax(minP, allocN) ==
    LET cap == Max(0, allocN)
        leave == Min(2, Max(0, cap - minP))
    IN  Max(minP, cap - leave)

\* maxPoints handed to chooseMotifParam for motif i of the plan
MaxPointsFor(plan, i, allocN, n, used) ==
    LET minP == motifMinPoints(plan[i])
    IN  Min(CapMax(minP, allocN),
            BudgetMax(minP, Smax(n), used, MinRemain(plan, i + 1)))

\* buildRegionPoints: the numbers of macro and micro points
NonStructCounts(allocN, S) ==
    LET m == Max(0, allocN)
        remain == Max(0, m - S)
        micro0 == Min(remain, Max(0, (88 * remain + 50) \div 100))
        macro0 == remain - micro0
    IN  IF remain > 0 /\ macro0 = 0
        THEN [macro |-> 1, micro |-> remain - 1]
        ELSE [macro |-> macro0, micro |-> micro0]

\* generateNonStructPoints: the list pts (macros first, then micros)
generateNonStructPoints(macroCount, microCount) ==
    [i \in 1..macroCount |-> [src |-> "macro", row |-> 0, col |-> i - 1]]
    \o [i \in 1..microCount |-> [src |-> "micro", row |-> 0, col |-> i - 1]]

\* rand() calls of pickCentersMaximin
RECURSIVE CenterDraws(_, _, _)
CenterDraws(kUse, candN, k) ==
    IF kUse <= 1 THEN 1
    ELSE IF k >= kUse THEN 1
    ELSE (candN - k) + CenterDraws(kUse, candN, k + 1)

\* rand() calls of generateNonStructPoints when no sampled point falls on
\* the center of a zone; dK is the draw that decides K
NonStructDraws(macroCount, microCount, dK) ==
    LET K == Min(4, Max(2, 2 + FloorMul(dK, 3)))
        kUse == Min(K, Max(1, macroCount))
        candN == Max(32, kUse * 16)
    IN  3 * macroCount + 1 + 3 * candN + CenterDraws(kUse, candN, 1)
        + 5 * microCount

\* the answers of the Voronoi provider for the sites of a region
Answers == {"polygon", "outside", "short", "null"}
ProviderModes == {"polygon", "null", "mixed"}
AnswerOf(mode, i) ==
    IF mode = "mixed"
    THEN <<"polygon", "outside", "short", "null">>[(i % 4) + 1]
    ELSE mode

\* buildCellsForRegion: one cell per site, its polygon being the clipped
\* Voronoi cell or one of the fallbacks
buildCellsForRegion(points, key, mode) ==
    [i \in 1..Len(points) |->
        [region |-> key,
         poly |-> IF AnswerOf(mode, i) = "polygon" THEN "voronoi" ELSE "fallback",
         num |-> 0]]

PadCell == [region |-> "mid", poly |-> "pad", num |-> 0]

\* the list left as buildCellsForRegion produced it
FixCellsNone(cells, n) == cells

\* the deterministic fix of buildBoard: truncate / pad
RECURSIVE FixCells(_, _)
FixCells(cells, n) ==
    IF Len(cells) > n THEN FixCells(SubSeq(cells, 1, Len(cells) - 1), n)
    ELSE IF Len(cells) < n THEN FixCells(Append(cells, PadCell), n)
    ELSE cells

\* Array.from({ length: N }, (_, i) => i + 1)
Numbers(n) == [i \in 1..n |-> i]

(***************************************************************************)
(* buildBoard as a sequence of steps                                       *)
(***************************************************************************)
EmptyRegions == [k \in Regions |-> <<>>]
ZeroRegions == [k \in Regions |-> 0]

FinIdle == fin = NoValue
BisIdle == bis = NoValue
GameIdle == game = NoValue
RunIdle == run = NoValue
RlxIdle == rlx = NoValue

BoardIdle ==
    /\ pc = "idle"
    /\ cfg = NoValue
    /\ provider = "polygon"
    /\ N = 0
    /\ relaxIters = 0
    /\ area = ZeroRegions
    /\ alloc = ZeroRegions
    /\ motifPlan = <<>>
    /\ targetRegions = <<>>
    /\ mi = 0
    /\ usedS = 0
    /\ motifParams = <<>>
    /\ regionStruct = EmptyRegions
    /\ regionZones = EmptyRegions
    /\ ri = 0
    /\ pts = EmptyRegions
    /\ fixedMask = EmptyRegions
    /\ relaxRuns = ZeroRegions
    /\ cellsAll = <<>>
    /\ result = NoValue

\* entry of buildBoard (a first call, or one after an earlier call returned):
\* N, relaxIters and fresh locals
Start(config, mode) ==
    /\ pc \in {"idle", "done"}
    /\ pc' = "partition"
    /\ cfg' = config
    /\ provider' = mode
    /\ N' = PieceCountOf(config)
    /\ relaxIters' = RelaxItersOf(config)
    /\ area' = ZeroRegions
    /\ alloc' = ZeroRegions
    /\ motifPlan' = <<>>
    /\ targetRegions' = <<>>
    /\ mi' = 0
    /\ usedS' = 0
    /\ motifParams' = <<>>
    /\ regionStruct' = EmptyRegions
    /\ regionZones' = EmptyRegions
    /\ ri' = 0
    /\ pts' = EmptyRegions
    /\ fixedMask' = EmptyRegions
    /\ relaxRuns' = ZeroRegions
    /\ cellsAll' = <<>>
    /\ result' = NoValue

\* steps 1) to 3): lines, region polygons and areas, allocation
Partition(ds, tie) ==
    /\ pc = "partition"
    /\ pc' = "plan"
    /\ area' = RegionAreas(ds)
    /\ alloc' = allocateByArea(N, RegionAreas(ds), tie)
    /\ UNCHANGED <<cfg, provider, N, relaxIters, motifPlan, targetRegions, mi, usedS,
                   motifParams, regionStruct, regionZones, ri, pts, fixedMask,
                   relaxRuns, cellsAll, result>>

\* step 4): motif plan and target regions
Plan(ds) ==
    /\ pc = "plan"
    /\ pc' = "motif"
    /\ motifPlan' = buildMotifPlan(N, ds)
    /\ targetRegions' = TargetRegions(area, buildMotifPlan(N, ds))
    /\ mi' = 1
    /\ usedS' = 0
    /\ UNCHANGED <<cfg, provider, N, relaxIters, area, alloc, motifParams, regionStruct,
                   regionZones, ri, pts, fixedMask, relaxRuns, cellsAll, result>>

\* step 5): one iteration of the sequential budgeted assignment; ds[1] is the
\* draw of chooseMotifParam
MotifStep(ds) ==
    /\ pc = "motif"
    /\ mi <= Len(motifPlan)
    /\ mi <= Len(targetRegions)
    /\ LET reg == targetRegions[mi]
           maxPoints == MaxPointsFor(motifPlan, mi, alloc[reg], N, usedS)
           param == chooseMotifParam(motifPlan[mi], maxPoints, ds[1])
           built == buildMotifInRegion(param)
       IN  /\ usedS' = usedS + param.count
           /\ motifParams' = Append(motifParams, param)
           /\ regionStruct' = [regionStruct EXCEPT ![reg] = built.structPts]
           /\ regionZones' = [regionZones EXCEPT ![reg] = Append(@, built.avoidZone)]
    /\ mi' = mi + 1
    /\ pc' = IF mi + 1 <= Len(motifPlan) /\ mi + 1 <= Len(targetRegions)
             THEN "motif" ELSE "points"
    /\ ri' = IF pc' = "points" THEN 1 ELSE ri
    /\ UNCHANGED <<cfg, provider, N, relaxIters, area, alloc, motifPlan, targetRegions,
                   pts, fixedMask, relaxRuns, cellsAll, result>>

\* step 6): buildRegionPoints for the region Keys[ri]
RegionPoints ==
    /\ pc = "points"
    /\ ri \in 1..3
    /\ LET key == Keys[ri]
           S == Len(regionStruct[key])
           c == NonStructCounts(alloc[key], S)
           all == regionStruct[key] \o generateNonStructPoints(c.macro, c.micro)
       IN  /\ pts' = [pts EXCEPT ![key] = all]
           /\ fixedMask' = [fixedMask EXCEPT ![key] = [i \in 1..Len(all) |-> i <= S]]
    /\ ri' = ri + 1
    /\ pc' = IF ri = 3 THEN "finalize" ELSE "points"
    /\ UNCHANGED <<cfg, provider, N, relaxIters, area, alloc, motifPlan, targetRegions, mi,
                   usedS, motifParams, regionStruct, regionZones, relaxRuns,
                   cellsAll, result>>

\* step 8): Lloyd relaxation (when relaxIters > 0), then minimum distance;
\* neither adds nor removes a site
Finalize ==
    /\ pc = "finalize"
    /\ pc' = "cells"
    /\ relaxRuns' = [k \in Regions |-> IF relaxIters > 0 THEN relaxIters ELSE 0]
    /\ UNCHANGED <<cfg, provider, N, relaxIters, area, alloc, motifPlan, targetRegions, mi,
                   usedS, motifParams, regionStruct, regionZones, ri, pts,
                   fixedMask, cellsAll, result>>

\* step 9): the cells of the three regions, concatenated
BuildCells ==
    /\ pc = "cells"
    /\ pc' = "fix"
    /\ cellsAll' = buildCellsForRegion(pts.left, "left", provider)
                   \o buildCellsForRegion(pts.mid, "mid", provider)
                   \o buildCellsForRegion(pts.right, "right", provider)
    /\ UNCHANGED <<cfg, provider, N, relaxIters, area, alloc, motifPlan, targetRegions, mi,
                   usedS, motifParams, regionStruct, regionZones, ri, pts,
                   fixedMask, relaxRuns, result>>

\* the deterministic fix: truncate / pad to N cells
FixCount ==
    /\ pc = "fix"
    /\ pc' = "label"
    /\ cellsAll' = FixCells(cellsAll, N)
    /\ UNCHANGED <<cfg, provider, N, relaxIters, area, alloc, motifPlan, targetRegions, mi,
                   usedS, motifParams, regionStruct, regionZones, ri, pts,
                   fixedMask, relaxRuns, result>>

\* step 10): shuffled numbering, and the return
Label(ds) ==
    /\ pc = "label"
    /\ pc' = "done"
    /\ \E nums \in {shuffleInPlace(Numbers(N), ds)} :
       \E cells \in {[i \in 1..Len(cellsAll) |->
                        IF i <= N THEN [cellsAll[i] EXCEPT !.num = nums[i]]
                        ELSE cellsAll[i]]} :
          /\ cellsAll' = cells
          /\ result' = [cells |-> cells]
    /\ UNCHANGED <<cfg, provider, N, relaxIters, area, alloc, motifPlan, targetRegions, mi,
                   usedS, motifParams, regionStruct, regionZones, ri, pts,
                   fixedMask, relaxRuns>>

(***************************************************************************)
(* board_gen.js : geometry                                                 *)
(*                                                                         *)
(* Coordinates are exact rationals in tenths of a pixel: a point is a      *)
(* triple <<X, Y, D>> with D > 0 standing for (X / D, Y / D).  A half-plane *)
(* is a record [a, b, c] standing for a*x + b*y <= c.  A polygon is the    *)
(* sequence of its vertices and the value null is the empty sequence.      *)
(* The membership tolerance 1e-9 of isInsidePlane is below the resolution  *)
(* of every coordinate that occurs, so the test is the exact one.          *)
(***************************************************************************)
Null == <<>>

Abs(x) == IF x < 0 THEN -x ELSE x

RECURSIVE Gcd(_, _)
Gcd(a, b) == IF b = 0 THEN a ELSE Gcd(b, a % b)

Pt(x, y) == <<x, y, 1>>

\* the same point with the smallest positive denominator
Reduce(p) ==
    LET s == IF p[3] < 0 THEN -1 ELSE 1
        g == Gcd(Gcd(Abs(p[1]), Abs(p[2])), Abs(p[3]))
    IN  <<(s * p[1]) \div g, (s * p[2]) \div g, (s * p[3]) \div g>>

\* a*x + b*y - c of isInsidePlane, times the denominator of p
PlaneValue(p, plane) == plane.a * p[1] + plane.b * p[2] - plane.c * p[3]

isInsidePlaneStrict(p, plane) == PlaneValue(p, plane) < 0

isInsidePlane(p, plane) == PlaneValue(p, plane) <= 0

\* the direction e - s as the shortest integer vector
Direction(s, e) ==
    LET dx == e[1] * s[3] - s[1] * e[3]
        dy == e[2] * s[3] - s[2] * e[3]
        g == Gcd(Abs(dx), Abs(dy))
    IN  IF g = 0 THEN <<0, 0>> ELSE <<dx \div g, dy \div g>>

\* the point s + t*(e - s) with t = (c - a*sx - b*sy) / (a*dx + b*dy) kept
\* within [0, 1]
\* the point of intersectSegPlane once its locals are known: dir the
\* direction of the segment, denom the plane's normal along it, vs and ve
\* the plane's values at the two ends
IntersectAt(s, e, dir, denom, vs, ve) ==
    IF denom = 0 THEN s
    ELSE IF (vs > 0 /\ denom > 0) \/ (vs < 0 /\ denom < 0) THEN s
    ELSE IF (ve > 0 /\ denom < 0) \/ (ve < 0 /\ denom > 0) THEN e
    ELSE Reduce(<<s[1] * denom - vs * dir[1],
                  s[2] * denom - vs * dir[2],
                  s[3] * denom>>)

IntersectAlong(s, e, plane, dir) ==
    IntersectAt(s, e, dir, plane.a * dir[1] + plane.b * dir[2],
                PlaneValue(s, plane), PlaneValue(e, plane))

intersectSegPlane(s, e, plane) == IntersectAlong(s, e, plane, Direction(s, e))

\* one turn of the loop of clipPolyByPlane: what the edge from s to e adds
\* to out, hit being the edge's intersection with the plane
ClipPush(out, e, sIn, eIn, hit) ==
    IF eIn THEN (IF sIn THEN out ELSE Append(out, hit)) \o <<e>>
    ELSE IF sIn THEN Append(out, hit)
    ELSE out

ClipEdge(out, s, e, plane) ==
    ClipPush(out, e, isInsidePlane(s, plane), isInsidePlane(e, plane),
             intersectSegPlane(s, e, plane))

RECURSIVE ClipLoop(_, _, _, _)
ClipLoop(poly, plane, i, out) ==
    IF i > Len(poly) THEN out
    ELSE ClipLoop(poly, plane, i + 1,
                  ClipEdge(out, poly[i], poly[(i % Len(poly)) + 1], plane))

\* out.length >= 3 ? out : null
AtLeastThree(out) == IF Len(out) >= 3 THEN out ELSE Null

clipPolyByPlane(poly, plane) ==
    IF Len(poly) < 3 THEN Null
    ELSE AtLeastThree(ClipLoop(poly, plane, 1, <<>>))

RECURSIVE clipPolyByPlanes(_, _)
\* the rest of the loop of clipPolyByPlanes after one plane gave p
ClipRest(p, planes) ==
    IF p = Null THEN Null ELSE clipPolyByPlanes(p, planes)

clipPolyByPlanes(poly, planes) ==
    IF planes = <<>> THEN poly
    ELSE ClipRest(clipPolyByPlane(poly, Head(planes)), Tail(planes))

isInsideAllPlanes(p, planes) ==
    \A i \in 1..Len(planes) : isInsidePlane(p, planes[i])

\* generateParallelLines, line 901: cos and sin of theta are not rational,
\* so the normal is kept as an integer vector of the same direction (the
\* planes, the widths as fractions of L and the clipping do not depend on
\* its length); three directions are followed: 76, 90 and 104 degrees
ThetaDraws == {<<7216, 0>>, <<32768, 0>>, <<58320, 0>>}

NormalOf(d) ==
    IF d[1] < 16384 THEN <<1, 4>>
    ELSE IF d[1] < 49152 THEN <<0, 1>>
    ELSE <<-1, 4>>

SetMin(S) == CHOOSE x \in S : \A y \in S : x <= y

SetMax(S) == CHOOSE x \in S : \A y \in S : x >= y

Corners(size) == {<<0, 0>>, <<size, 0>>, <<size, size>>, <<0, size>>}

\* the two reserves of minW = 0.18 * L that a band of three needs
LinesRemTwo(L) == L - 2 * ((18 * L) \div 100)

LinesRem(L) == L - 3 * ((18 * L) \div 100)

\* ds = the four values of rand() in the order of the calls; t1 and t2 are
\* kept to the unit of the coordinates, rounded down
generateParallelLines(size, ds) ==
    LET n == NormalOf(ds[1])
        ts == {n[1] * c[1] + n[2] * c[2] : c \in Corners(size)}
        minT == SetMin(ts)
        maxT == SetMax(ts)
        L == maxT - minT
        minW == (18 * L) \div 100
        rem == LinesRem(L)
        rs == Weight(ds[2]) + Weight(ds[3]) + Weight(ds[4])
        w0 == minW + (rem * Weight(ds[2])) \div rs
        w1 == minW + (rem * Weight(ds[3])) \div rs
    IN  [nx |-> n[1], ny |-> n[2], t1 |-> minT + w0, t2 |-> minT + w0 + w1,
         minT |-> minT, maxT |-> maxT]

makeSquarePlanes(size) ==
    << [a |-> -1, b |-> 0, c |-> 0],
       [a |-> 1, b |-> 0, c |-> size],
       [a |-> 0, b |-> -1, c |-> 0],
       [a |-> 0, b |-> 1, c |-> size] >>

\* the middle band bounded below by the second line instead of the first
MidPlanesFromT2(size, lines) ==
    makeSquarePlanes(size) \o
        << [a |-> -lines.nx, b |-> -lines.ny, c |-> -lines.t2],
           [a |-> lines.nx, b |-> lines.ny, c |-> lines.t2] >>

MidPlanes(size, lines) ==
    makeSquarePlanes(size) \o
        << [a |-> -lines.nx, b |-> -lines.ny, c |-> -lines.t1],
           [a |-> lines.nx, b |-> lines.ny, c |-> lines.t2] >>

makeRegionPlanes(size, lines) ==
    [left |-> makeSquarePlanes(size) \o
                  << [a |-> lines.nx, b |-> lines.ny, c |-> lines.t1] >>,
     mid |-> MidPlanes(size, lines),
     right |-> makeSquarePlanes(size) \o
                  << [a |-> -lines.nx, b |-> -lines.ny, c |-> -lines.t2] >>]

SquarePoly(size) == <<Pt(0, 0), Pt(size, 0), Pt(size, size), Pt(0, size)>>

\* p || q for polygons
OrElse(p, q) == IF p = Null THEN q ELSE p

regionPolyFromPlanes(size, planes) ==
    OrElse(clipPolyByPlanes(SquarePoly(size), planes), SquarePoly(size))

\* cleanD3Polygon: null for no polygon or fewer than 3 entries, else the
\* polygon without its closing vertex (the result may have 2 vertices)
cleanD3Polygon(poly) ==
    IF poly = Null \/ Len(poly) < 3 THEN Null
    ELSE IF poly[1][1] = poly[Len(poly)][1] /\ poly[1][2] = poly[Len(poly)][2]
         THEN SubSeq(poly, 1, Len(poly) - 1)
         ELSE poly

\* d = Math.max(1.1, size * 0.002) in tenths of a pixel, pt an integer point
makeFallbackTriangle(pt, size) ==
    LET d == Max(11, (2 * size) \div 1000)
    IN  <<Pt(pt[1] - d, pt[2] - d), Pt(pt[1] + d, pt[2] - d), Pt(pt[1], pt[2] + d)>>

\* all vertices on one line: the area of a convex polygon is 0
Flat(poly) ==
    \A i \in 1..Len(poly) : \A j \in 1..Len(poly) :
        LET u == Direction(poly[1], poly[i])
            v == Direction(poly[1], poly[j])
        IN  u[1] * v[2] = u[2] * v[1]

\* polygonCentroid of a convex polygon: the middle vertex when the area is
\* 0, else the point (cx / 6a, cy / 6a), kept as the polygon it belongs to
polygonCentroid(poly) ==
    IF Flat(poly)
    THEN [rule |-> "vertex",
          at |-> IF poly = <<>> THEN <<Pt(0, 0)>> ELSE <<poly[(Len(poly) \div 2) + 1]>>]
    ELSE [rule |-> "area", at |-> poly]

clamp(v, lo, hi) == Max(lo, Min(hi, v))

\* the last fallback of buildCellsForRegion, lines 1351-1359
UnitSquareAt(pt, size) ==
    << Pt(clamp(pt[1] - 1, 0, size), clamp(pt[2] - 1, 0, size)),
       Pt(clamp(pt[1] + 1, 0, size), clamp(pt[2] - 1, 0, size)),
       Pt(clamp(pt[1] + 1, 0, size), clamp(pt[2] + 1, 0, size)),
       Pt(clamp(pt[1] - 1, 0, size), clamp(pt[2] + 1, 0, size)) >>

\* the fallback triangle as it is, never clipped
FallbackUnclipped(fb, planes) == fb

\* clipPolyByPlanes(fb, regionPlanes) || fb
FallbackClipped(fb, planes) == OrElse(clipPolyByPlanes(fb, planes), fb)

\* the cell record pushed for a clipped polygon
CellOf(clipped) == [poly |-> clipped, centroid |-> polygonCentroid(clipped)]

\* (!p || p.length < 3) ? q : p
OrIfDegenerate(p, q) == IF p = Null \/ Len(p) < 3 THEN q ELSE p

\* the cell of the provider's answer alone, with no fallback
RegionCellNoFallback(pt, raw, size, regionPlanes) ==
    CellOf(clipPolyByPlanes(cleanD3Polygon(raw), regionPlanes))

\* the body of the loop of buildCellsForRegion for the site pt, raw being
\* the value of voronoi.cellPolygon(i)
RegionCell(pt, raw, size, regionPlanes) ==
    CellOf(OrIfDegenerate(
             OrIfDegenerate(
               clipPolyByPlanes(OrIfDegenerate(cleanD3Polygon(raw),
                                               makeFallbackTriangle(pt, size)),
                                regionPlanes),
               FallbackClipped(makeFallbackTriangle(pt, size), regionPlanes)),
             UnitSquareAt(pt, size)))

\* buildCellsForRegion with the geometry of its cells; raws[i] is the value
\* of voronoi.cellPolygon(i - 1)
buildRegionCells(points, raws, size, regionPlanes) ==
    [i \in 1..Len(points) |-> RegionCell(points[i], raws[i], size, regionPlanes)]

\* the cell the padding step of buildBoard adds, lines 1891-1896
PadCellAt(insideM, size, midPlanes) ==
    CellOf(FallbackClipped(makeFallbackTriangle(insideM, size), midPlanes))

\* clampToPlanesByBisection for points kept to the unit of the coordinates
\* (each half is rounded down): 32 halvings between insidePoint and p
RECURSIVE Bisect(_, _, _, _)
Bisect(lo, hi, planes, i) ==
    IF i = 0 THEN lo
    ELSE LET mid == Pt((lo[1] + hi[1]) \div 2, (lo[2] + hi[2]) \div 2)
         IN  IF isInsideAllPlanes(mid, planes)
             THEN Bisect(mid, hi, planes, i - 1)
             ELSE Bisect(lo, mid, planes, i - 1)

clampToPlanesByBisection(p, insidePoint, planes) ==
    IF isInsideAllPlanes(p, planes) THEN p
    ELSE Bisect(insidePoint, p, planes, 32)

(***************************************************************************)
(* board_gen.js : buildBoard, the constant relaxIters                      *)
(***************************************************************************)
\* a value of config.relaxIters: kind is what JavaScript holds ("undefined"
\* for an absent field); a finite number is (-1)^neg * (int + frac / 10) with
\* int = int[1] * 65536 + int[2], where int[1] may pass 16 bits
JsNumber(neg, int, frac) == [kind |-> "number", neg |-> neg, int |-> int, frac |-> frac]
JsOther(kind) == [kind |-> kind, neg |-> FALSE, int |-> <<0, 0>>, frac |-> 0]

\* typeof v === "number"
TypeofNumber(v) == v.kind \in {"number", "NaN", "Infinity", "-Infinity"}

\* Number.isFinite(v)
NumberIsFinite(v) == v.kind = "number"

\* v | 0 for a finite number: the fraction is dropped, the integer is taken
\* modulo 2^32 and read as an int32
OrZero(v) ==
    IF ~v.neg THEN ToInt32(v.int)
    ELSE IF v.int[2] = 0 THEN ToInt32(<<(0 - v.int[1]) % W16, 0>>)
    ELSE ToInt32(<<(0 - v.int[1] - 1) % W16, W16 - v.int[2]>>)

\* Math.max(0, x) of an int32
MaxZero(x) == IF x[1] < 0 THEN <<0, 0>> ELSE x

\* v | 0 replaced by Math.round(v)
RelaxItersRounded(v) ==
    IF TypeofNumber(v) /\ NumberIsFinite(v)
    THEN MaxZero(OrZero([v EXCEPT !.int = IF v.frac >= 5 /\ ~v.neg
                                          THEN <<v.int[1], v.int[2] + 1>>
                                          ELSE v.int]))
    ELSE <<0, 1>>

\* const relaxIters = typeof config.relaxIters === "number" &&
\* Number.isFinite(config.relaxIters) ? Math.max(0, config.relaxIters | 0) : 1
RelaxItersExact(v) ==
    IF TypeofNumber(v) /\ NumberIsFinite(v) THEN MaxZero(OrZero(v)) ELSE <<0, 1>>

(***************************************************************************)
(* board_gen.js : clampToPlanesByBisection, exactly                        *)
(*                                                                         *)
(* A coordinate is here a pair <<h, l>> with l in 0..65535 standing for    *)
(* (h * 65536 + l) / 2^32: a number with 32 binary places.  For points     *)
(* with integer coordinates below 2^20 the doubles of the code hold every  *)
(* sum lo + hi and every half of the 32 iterations exactly, and for a      *)
(* plane with a, b in {-1, 0, 1} and integer c the value a*x + b*y - c as  *)
(* well.                                                                   *)
(***************************************************************************)
\* the integer n
Fx(n) == <<n * W16, 0>>

FxNorm(h, l) == <<h + (l \div W16), l % W16>>

FxAdd(x, y) == FxNorm(x[1] + y[1], x[2] + y[2])

\* k * x for an integer k
FxScale(k, x) == FxNorm(k * x[1], k * x[2])

\* x * 0.5
FxHalf(x) == <<x[1] \div 2, ((x[1] % 2) * W16 + x[2]) \div 2>>

FxLeq(x, y) == x[1] < y[1] \/ (x[1] = y[1] /\ x[2] <= y[2])

FxPt(x, y) == <<Fx(x), Fx(y)>>

\* the default eps = 1e-9 of isInsidePlane in units of 2^-32, rounded down
\* (1e-9 * 2^32 = 4.29...)
EpsUnits == 4

\* plane.a * p[0] + plane.b * p[1] - plane.c
FxPlaneValue(p, plane) ==
    FxAdd(FxAdd(FxScale(plane.a, p[1]), FxScale(plane.b, p[2])), Fx(-plane.c))

\* isInsidePlane with no tolerance: v <= 0
FxInsidePlaneExact(p, plane) == FxLeq(FxPlaneValue(p, plane), Fx(0))

\* isInsidePlane: v <= eps
FxInsidePlane(p, plane) == FxLeq(FxPlaneValue(p, plane), <<0, EpsUnits>>)

FxInsideAllPlanes(p, planes) ==
    \A j \in 1..Len(planes) : FxInsidePlane(p, planes[j])

\* const mid = [(lo[0] + hi[0]) * 0.5, (lo[1] + hi[1]) * 0.5]
BisectMid(lo, hi) == <<FxHalf(FxAdd(lo[1], hi[1])), FxHalf(FxAdd(lo[2], hi[2]))>>

\* the two assignments of the loop body swapped: if (inside) hi = mid; else
\* lo = mid
BisectKeepOutside(lo, hi, planes) ==
    IF FxInsideAllPlanes(BisectMid(lo, hi), planes)
    THEN [lo |-> lo, hi |-> BisectMid(lo, hi)]
    ELSE [lo |-> BisectMid(lo, hi), hi |-> hi]

\* the body of the loop: if (isInsideAllPlanes(mid, planes)) lo = mid; else
\* hi = mid
BisectBody(lo, hi, planes) ==
    IF FxInsideAllPlanes(BisectMid(lo, hi), planes)
    THEN [lo |-> BisectMid(lo, hi), hi |-> hi]
    ELSE [lo |-> lo, hi |-> BisectMid(lo, hi)]

\* the bound of the loop: for (let i = 0; i < 32; i++)
BisectIters == 32

(***************************************************************************)
(* board_gen.js : sites                                                    *)
(*                                                                         *)
(* A site is a point with integer coordinates: every coordinate that the   *)
(* code computes for a site is kept to the unit of the coordinates (a      *)
(* tenth of a pixel), and so are the lengths minDist and d.  Two sites     *)
(* have the same key in nudgeDuplicatesWithinPlanes when they are equal.   *)
(***************************************************************************)
RECURSIVE SqrtBetween(_, _, _)
SqrtBetween(n, lo, hi) ==
    IF lo >= hi THEN lo
    ELSE LET mid == (lo + hi + 1) \div 2
         IN  IF mid * mid <= n THEN SqrtBetween(n, mid, hi)
             ELSE SqrtBetween(n, lo, mid - 1)

\* Math.sqrt, rounded down
ISqrt(n) == SqrtBetween(n, 0, Min(n, 46340))

\* the quotient rounded toward 0, and away from 0
TruncDiv(a, b) == IF a >= 0 THEN a \div b ELSE -((-a) \div b)

AwayDiv(a, b) == IF a >= 0 THEN (a + b - 1) \div b ELSE -((b - a - 1) \div b)

Dist2(p, q) == (q[1] - p[1]) * (q[1] - p[1]) + (q[2] - p[2]) * (q[2] - p[2])

\* polygonArea of a polygon with integer vertices, times 2
RECURSIVE CrossSum(_, _)
CrossSum(poly, i) ==
    IF i > Len(poly) THEN 0
    ELSE LET j == IF i = 1 THEN Len(poly) ELSE i - 1
         IN  poly[j][1] * poly[i][2] - poly[i][1] * poly[j][2] + CrossSum(poly, i + 1)

\* Math.abs(polygonArea(poly)) of buildBoard, in hundreds of square units
RegionArea(poly) == Abs(CrossSum(poly, 1)) \div 200

\* minDistFromArea with factor 0.6, for an area in hundreds of square units
minDistFromArea(area100, m) ==
    IF m <= 1 THEN 0 ELSE ISqrt((36 * area100) \div m)

\* (cos, sin) of rand() * 2 * PI for the draws 0, 1/4, 1/2 and 3/4, of which
\* the first two are followed
AngleDraws == {<<0, 0>>, <<16384, 0>>}

AngleDir(d) ==
    IF d[1] < 16384 THEN <<1, 0>>
    ELSE IF d[1] < 32768 THEN <<0, 1>>
    ELSE IF d[1] < 49152 THEN <<-1, 0>>
    ELSE <<0, -1>>

\* fixedMask ? !!fixedMask[i] : false, the mask null being <<>>
IsFixed(mask, i) == mask # <<>> /\ mask[i]

\* pushOutOfZones for one zone [cx, cy, r]
PushOutOfZone(p, z, dir) ==
    LET dx == p[1] - z.cx
        dy == p[2] - z.cy
        d2 == dx * dx + dy * dy
        d == ISqrt(d2)
    IN  IF d2 >= z.r * z.r THEN p
        ELSE IF d2 = 0
             THEN Pt(z.cx + AngleDir(dir)[1] * z.r, z.cy + AngleDir(dir)[2] * z.r)
             ELSE Pt(z.cx + AwayDiv(dx * z.r, d), z.cy + AwayDiv(dy * z.r, d))

RECURSIVE pushOutOfZones(_, _, _)
pushOutOfZones(p, zones, dir) ==
    IF zones = <<>> THEN p
    ELSE pushOutOfZones(PushOutOfZone(p, Head(zones), dir), Tail(zones), dir)

\* (rand() - 0.5) * 0.8 pixels, to the nearest unit
NudgeStep(d) == ((8 * d[1] + 32768 + ((8 * d[2]) \div W16)) \div W16) - 4

\* the while loop of nudgeDuplicatesWithinPlanes; nd = the values of rand()
\* for px and for py (the same at every try)
RECURSIVE NudgeTry(_, _, _, _, _, _)
NudgeTry(p, seen, tries, planes, insidePoint, nd) ==
    IF p \in DOMAIN seen /\ tries < 24
    THEN NudgeTry(clampToPlanesByBisection(
                      Pt(p[1] + NudgeStep(nd[1]), p[2] + NudgeStep(nd[2])),
                      insidePoint, planes),
                  seen, tries + 1, planes, insidePoint, nd)
    ELSE p

\* the index to nudge is always the current one
NudgeIndexCurrent(i, j, mask) == i

\* let k = i; if (iFixed && !jFixed) k = j
NudgeIndex(i, j, mask) ==
    IF IsFixed(mask, i) /\ ~IsFixed(mask, j) THEN j ELSE i

RECURSIVE NudgeLoop(_, _, _, _, _, _, _)
NudgeLoop(points, seen, i, planes, insidePoint, nd, mask) ==
    IF i > Len(points) THEN points
    ELSE IF points[i] \notin DOMAIN seen
    THEN NudgeLoop(points, (points[i] :> i) @@ seen, i + 1,
                   planes, insidePoint, nd, mask)
    ELSE IF IsFixed(mask, i) /\ IsFixed(mask, seen[points[i]])
    THEN NudgeLoop(points, seen, i + 1, planes, insidePoint, nd, mask)
    ELSE LET k == NudgeIndex(i, seen[points[i]], mask)
             q == NudgeTry(points[k], seen, 0, planes, insidePoint, nd)
         IN  NudgeLoop([points EXCEPT ![k] = q], (q :> k) @@ seen, i + 1,
                       planes, insidePoint, nd, mask)

nudgeDuplicatesWithinPlanes(points, planes, insidePoint, nd, mask) ==
    NudgeLoop(points, [x \in {} |-> 0], 1, planes, insidePoint, nd, mask)

\* the loop "keep free points out of zones" of lloydRelaxInRegionAnchored
\* and of enforceMinDistanceAnchored
ZonePushFree(points, mask, zones, planes, insidePoint, dir) ==
    IF zones = <<>> THEN points
    ELSE [i \in 1..Len(points) |->
            IF IsFixed(mask, i) THEN points[i]
            ELSE clampToPlanesByBisection(pushOutOfZones(points[i], zones, dir),
                                          insidePoint, planes)]

\* the new place of a free site in one iteration of Lloyd: answer is the
\* centroid of its clipped Voronoi cell, or Null when the site is kept (no
\* polygon, fewer than 3 vertices, a clip that leaves nothing)
LloydMove(p, answer, planes, insidePoint, zones, dir) ==
    IF answer = Null THEN p
    ELSE clampToPlanesByBisection(
             pushOutOfZones(clampToPlanesByBisection(answer, insidePoint, planes),
                            zones, dir),
             insidePoint, planes)

\* one iteration of the loop of lloydRelaxInRegionAnchored
LloydIteration(points, mask, answers, planes, insidePoint, zones, dir, nd) ==
    LET nextPts == [i \in 1..Len(points) |->
                      IF IsFixed(mask, i) THEN points[i]
                      ELSE LloydMove(points[i], answers[i], planes, insidePoint,
                                     zones, dir)]
        nudged == nudgeDuplicatesWithinPlanes(nextPts, planes, insidePoint, nd, mask)
    IN  ZonePushFree(nudged, mask, zones, planes, insidePoint, dir)

\* the body of the inner loop of separationSweep for the pair i < j
SeparatePair(points, i, j, minDist, planes, insidePoint, dir) ==
    LET dx == points[j][1] - points[i][1]
        dy == points[j][2] - points[i][2]
        d2 == dx * dx + dy * dy
        d == ISqrt(d2)
        need == minDist - d
        sx == IF d2 = 0 THEN AngleDir(dir)[1] * (need \div 2)
              ELSE TruncDiv(dx * need, 2 * d)
        sy == IF d2 = 0 THEN AngleDir(dir)[2] * (need \div 2)
              ELSE TruncDiv(dy * need, 2 * d)
    IN  IF d2 >= minDist * minDist THEN points
        ELSE [points EXCEPT
                ![i] = clampToPlanesByBisection(Pt(points[i][1] - sx, points[i][2] - sy),
                                                insidePoint, planes),
                ![j] = clampToPlanesByBisection(Pt(points[j][1] + sx, points[j][2] + sy),
                                                insidePoint, planes)]

RECURSIVE SweepFrom(_, _, _, _, _, _, _)
SweepFrom(points, i, j, minDist, planes, insidePoint, dir) ==
    IF i > Len(points) THEN points
    ELSE IF j > Len(points)
    THEN SweepFrom(points, i + 1, i + 2, minDist, planes, insidePoint, dir)
    ELSE SweepFrom(SeparatePair(points, i, j, minDist, planes, insidePoint, dir),
                   i, j + 1, minDist, planes, insidePoint, dir)

\* separationSweep(false), the only way it is called
separationSweep(points, minDist, planes, insidePoint, dir) ==
    SweepFrom(points, 1, 2, minDist, planes, insidePoint, dir)

\* const passes = 5
Passes == 5

\* enforceMinDistanceAnchored ends as soon as the main passes are over
SepAfterNoFinal(step, pass) ==
    IF step = "zones" THEN [step |-> "sweep", pass |-> pass]
    ELSE IF step = "sweep" THEN [step |-> "nudge", pass |-> pass]
    ELSE IF step = "nudge" THEN [step |-> "resweep", pass |-> pass]
    ELSE IF pass + 1 < Passes THEN [step |-> "zones", pass |-> pass + 1]
    ELSE [step |-> "cells", pass |-> Passes]

\* the order of the operations of enforceMinDistanceAnchored: what follows
\* the operation step of the pass
SepAfter(step, pass) ==
    IF step = "zones" THEN [step |-> "sweep", pass |-> pass]
    ELSE IF step = "sweep" THEN [step |-> "nudge", pass |-> pass]
    ELSE IF step = "nudge" THEN [step |-> "resweep", pass |-> pass]
    ELSE IF step = "resweep"
         THEN IF pass + 1 < Passes THEN [step |-> "zones", pass |-> pass + 1]
              ELSE [step |-> "final1", pass |-> Passes]
    ELSE IF step = "final1" THEN [step |-> "final2", pass |-> Passes]
    ELSE [step |-> "cells", pass |-> Passes]

(***************************************************************************)
(* Specifications                                                          *)
(***************************************************************************)
\* no stream exists yet
RngIdle ==
    /\ rngSeedStr = <<>>
    /\ rngSeed = <<>>
    /\ rngA = <<0, 0>>
    /\ rngOut = NoOut
    /\ rngCalls = -1

FnIdle ==
    /\ fnIn = NoValue
    /\ fnOut = NoValue

DetIdle ==
    /\ tieOrder = Keys
    /\ history = <<>>

SeedChars == {SPACE, 97, 98}
SeedStrs == UNION {[1..n -> SeedChars] : n \in 0..MaxSeedLen}
Clocks == {<<49>>, <<50>>}


\* the stream of makeRng on its own
RngInit ==
    /\ RngIdle
    /\ FnIdle
    /\ BoardIdle
    /\ FinIdle
    /\ BisIdle
    /\ GameIdle
    /\ RlxIdle
    /\ RunIdle
    /\ DetIdle

\* makeRng(seedStr): a new stream replaces the current one
MakeRngStream(seedStr, clock) ==
    /\ rngSeedStr' = seedStr
    /\ rngSeed' = SeedOf(seedStr, clock)
    /\ rngA' = MakeRngState(seedStr, clock)
    /\ rngOut' = NoOut
    /\ rngCalls' = 0

MakeRng(seedStr, clock) ==
    /\ MakeRngStream(seedStr, clock)
    /\ UNCHANGED <<fnVars, boardVars, detVars, fin, bis, game, run, rlx>>

Rand ==
    /\ rngCalls >= 0
    /\ rngCalls < MaxCalls
    /\ rngA' = MulberryStep(rngA)
    /\ rngOut' = MulberryOut(MulberryStep(rngA))
    /\ rngCalls' = rngCalls + 1
    /\ UNCHANGED <<rngSeedStr, rngSeed, fnVars, boardVars, detVars, fin, bis, game, run, rlx>>

RngMake == \E s \in SeedStrs : \E c \in Clocks : MakeRng(s, c)

RngNext == RngMake \/ Rand

SpecRng == RngInit /\ [][RngNext]_vars

\* allocateByArea on its own
AreaTriples == [Regions -> 1..MaxArea]

AllocInit ==
    /\ RngIdle
    /\ fnIn \in {[fn |-> "allocateByArea", totalN |-> n, areas |-> a, tie |-> t] :
                   n \in 1..MaxAllocN, a \in AreaTriples, t \in KeyOrders}
    /\ fnOut = NoValue
    /\ BoardIdle
    /\ FinIdle
    /\ BisIdle
    /\ GameIdle
    /\ RlxIdle
    /\ RunIdle
    /\ DetIdle

AllocCall ==
    /\ fnIn.fn = "allocateByArea"
    /\ fnOut = NoValue
    /\ fnOut' = allocateByArea(fnIn.totalN, fnIn.areas, fnIn.tie)
    /\ UNCHANGED <<fnIn, rngVars, boardVars, detVars, fin, bis, game, run, rlx>>

SpecAlloc == AllocInit /\ [][AllocCall]_vars

\* chooseMotifParam and buildMotifInRegion on their own
MotifInit ==
    /\ RngIdle
    /\ fnIn \in {[fn |-> "chooseMotifParam", type |-> t, maxPoints |-> m, d |-> d] :
                   t \in MotifTypes, m \in 3..MaxMotifPoints, d \in FineDrawSet}
    /\ fnIn.maxPoints >= motifMinPoints(fnIn.type)
    /\ fnOut = NoValue
    /\ BoardIdle
    /\ FinIdle
    /\ BisIdle
    /\ GameIdle
    /\ RlxIdle
    /\ RunIdle
    /\ DetIdle

MotifCall ==
    /\ fnIn.fn = "chooseMotifParam"
    /\ fnOut = NoValue
    /\ LET param == chooseMotifParam(fnIn.type, fnIn.maxPoints, fnIn.d)
       IN  fnOut' = [param |-> param,
                     structPts |-> buildMotifInRegion(param).structPts]
    /\ UNCHANGED <<fnIn, rngVars, boardVars, detVars, fin, bis, game, run, rlx>>

SpecMotif == MotifInit /\ [][MotifCall]_vars

\* buildBoard, for every stream of values of rand()
LargeCounts == {20, 30, 31, 50, 70, 71, 100}
RelaxInputs == {<<>>, <<0>>, <<2>>}
Configs ==
    {[seedStr |-> <<>>, pieceCount |-> n, relaxIters |-> r] :
        n \in -1..MaxSmallN, r \in RelaxInputs}
    \cup {[seedStr |-> <<>>, pieceCount |-> n, relaxIters |-> <<>>] :
        n \in LargeCounts}

\* the provider answers followed for a configuration
ModesFor(config) ==
    IF config.pieceCount <= MaxSmallN THEN ProviderModes ELSE {"mixed"}

\* the streams of values followed in a label shuffle of n draws
ShuffleSeqs(n) ==
    IF n <= MaxShuffle THEN [1..n -> DrawSet]
    ELSE {[i \in 1..n |-> <<32768, 0>>]}

Init ==
    /\ RngIdle
    /\ FnIdle
    /\ BoardIdle
    /\ FinIdle
    /\ BisIdle
    /\ GameIdle
    /\ RlxIdle
    /\ RunIdle
    /\ DetIdle

\* one call of buildBoard is followed
BStart ==
    /\ pc = "idle"
    /\ \E c \in Configs : \E mode \in ModesFor(c) :
        Start(c, mode) /\ UNCHANGED <<rngVars, fnVars, detVars, fin, bis, game, run, rlx>>
BPartition ==
    \E ds \in [1..LinesDraws -> DrawSet] : \E tie \in KeyOrders :
        Partition(ds, tie) /\ UNCHANGED <<rngVars, fnVars, detVars, fin, bis, game, run, rlx>>
BPlan ==
    \E ds \in [1..PlanDraws(N) -> DrawSet] :
        Plan(ds) /\ UNCHANGED <<rngVars, fnVars, detVars, fin, bis, game, run, rlx>>
BMotif == \E d \in DrawSet : MotifStep(<<d>>) /\ UNCHANGED <<rngVars, fnVars, detVars, fin, bis, game, run, rlx>>
BPoints == RegionPoints /\ UNCHANGED <<rngVars, fnVars, detVars, fin, bis, game, run, rlx>>
BFinalize == Finalize /\ UNCHANGED <<rngVars, fnVars, detVars, fin, bis, game, run, rlx>>
BCells == BuildCells /\ UNCHANGED <<rngVars, fnVars, detVars, fin, bis, game, run, rlx>>
BFix == FixCount /\ UNCHANGED <<rngVars, fnVars, detVars, fin, bis, game, run, rlx>>
BLabel ==
    \E ds \in ShuffleSeqs(N - 1) : Label(ds) /\ UNCHANGED <<rngVars, fnVars, detVars, fin, bis, game, run, rlx>>

Next ==
    \/ BStart
    \/ BPartition
    \/ BPlan
    \/ BMotif
    \/ BPoints
    \/ BFinalize
    \/ BCells
    \/ BFix
    \/ BLabel

Spec == Init /\ [][Next]_vars

\* buildBoard called several times in a row, every value of rand() being
\* the one that the stream of makeRng(config.seedStr) yields
\* the closure variable a after k more calls: MulberryStep applied k times,
\* which adds k * 0x6D2B79F5
Skip(a, k) ==
    IF k <= 0 THEN a
    ELSE Add(a, <<k * 27947 + ((k * 31221) \div W16), (k * 31221) % W16>>)

\* the value of the i-th next rand() call on a stream whose state is a
DrawAt(a, i) == MulberryOut(Skip(a, i))
Draws(a, k) == [i \in 1..k |-> DrawAt(a, i)]

\* k calls of rand()
TakeDraws(k) ==
    /\ rngA' = Skip(rngA, k)
    /\ rngOut' = IF k <= 0 THEN rngOut ELSE DrawAt(rngA, k)
    /\ rngCalls' = rngCalls + k
    /\ UNCHANGED <<rngSeedStr, rngSeed>>

DetSeeds == {<<97>>, <<98>>, <<SPACE>>}
DetCounts == {3, 20}
DetConfigs ==
    {[seedStr |-> s, pieceCount |-> n, relaxIters |-> <<>>] :
        s \in DetSeeds, n \in DetCounts}

DetInit ==
    /\ RngIdle
    /\ FnIdle
    /\ BoardIdle
    /\ FinIdle
    /\ BisIdle
    /\ GameIdle
    /\ RlxIdle
    /\ RunIdle
    /\ tieOrder \in KeyOrders
    /\ history = <<>>

DStart ==
    /\ Len(history) < MaxRuns
    /\ \E c \in DetConfigs : \E clock \in Clocks :
        /\ Start(c, "mixed")
        /\ MakeRngStream(c.seedStr, clock)
    /\ UNCHANGED <<fnVars, detVars, fin, bis, game, run, rlx>>

DPartition ==
    /\ Partition(Draws(rngA, LinesDraws), tieOrder)
    /\ TakeDraws(LinesDraws)
    /\ UNCHANGED <<fnVars, detVars, fin, bis, game, run, rlx>>

DPlan ==
    /\ Plan(Draws(rngA, PlanDraws(N)))
    /\ TakeDraws(PlanDraws(N))
    /\ UNCHANGED <<fnVars, detVars, fin, bis, game, run, rlx>>

DMotif ==
    /\ pc = "motif"
    /\ MotifStep(<<DrawAt(rngA, 1)>>)
    /\ TakeDraws(ChooseDraws(motifPlan[mi],
                             MaxPointsFor(motifPlan, mi, alloc[targetRegions[mi]],
                                          N, usedS))
                 + MotifBuildDraws)
    /\ UNCHANGED <<fnVars, detVars, fin, bis, game, run, rlx>>

DPoints ==
    /\ pc = "points"
    /\ RegionPoints
    /\ LET c == NonStructCounts(alloc[Keys[ri]], Len(regionStruct[Keys[ri]]))
       IN  TakeDraws(NonStructDraws(c.macro, c.micro,
                                    DrawAt(rngA, 3 * c.macro + 1)))
    /\ UNCHANGED <<fnVars, detVars, fin, bis, game, run, rlx>>

\* no pair of sites is closer than the minimum distance: no rand() call
DFinalize == Finalize /\ UNCHANGED <<rngVars, fnVars, detVars, fin, bis, game, run, rlx>>
DCells == BuildCells /\ UNCHANGED <<rngVars, fnVars, detVars, fin, bis, game, run, rlx>>
DFix == FixCount /\ UNCHANGED <<rngVars, fnVars, detVars, fin, bis, game, run, rlx>>

DLabel ==
    /\ pc = "label"
    /\ Label(Draws(rngA, N - 1))
    /\ TakeDraws(N - 1)
    /\ history' = Append(history, [config |-> cfg, provider |-> provider,
                                   cells |-> result'.cells,
                                   calls |-> rngCalls', state |-> rngA'])
    /\ UNCHANGED <<fnVars, tieOrder, fin, bis, game, run, rlx>>

DetNext ==
    \/ DStart
    \/ DPartition
    \/ DPlan
    \/ DMotif
    \/ DPoints
    \/ DFinalize
    \/ DCells
    \/ DFix
    \/ DLabel

SpecDet == DetInit /\ [][DetNext]_vars

\* clipPolyByPlanes on its own: triangles and the square itself against
\* the three regions of a board
ClipSize == {50}
ClipXs == {0, 25, 50}
ClipYs == {0, 8, 16, 32, 50}
ClipPoints == {Pt(x, y) : x \in ClipXs, y \in ClipYs}
ClipPolys ==
    {<<p, q, r>> : p \in ClipPoints, q \in ClipPoints, r \in ClipPoints}
        \cup {SquarePoly(s) : s \in ClipSize}
EvenDraws == <<32768, 0>>
LineSets(size) ==
    {generateParallelLines(size, <<th, EvenDraws, EvenDraws, EvenDraws>>) :
        th \in ThetaDraws}

ClipInit ==
    /\ RngIdle
    /\ fnIn \in {[fn |-> "clipPolyByPlanes", poly |-> p,
                  planes |-> makeRegionPlanes(s, l)[k]] :
                   p \in ClipPolys, s \in ClipSize, l \in LineSets(50),
                   k \in Regions}
    /\ fnOut = NoValue
    /\ BoardIdle
    /\ FinIdle
    /\ BisIdle
    /\ GameIdle
    /\ RlxIdle
    /\ RunIdle
    /\ DetIdle

ClipCall ==
    /\ fnIn.fn = "clipPolyByPlanes"
    /\ fnOut = NoValue
    /\ fnOut' = [poly |-> clipPolyByPlanes(fnIn.poly, fnIn.planes)]
    /\ UNCHANGED <<fnIn, rngVars, boardVars, detVars, fin, bis, game, run, rlx>>

SpecClip == ClipInit /\ [][ClipCall]_vars

\* generateParallelLines and makeRegionPlanes on their own
LinesInit ==
    /\ RngIdle
    /\ fnIn \in {[fn |-> "generateParallelLines", size |-> s,
                  ds |-> <<th, d0, d1, d2>>] :
                   s \in ClipSize, th \in ThetaDraws,
                   d0 \in DrawSet, d1 \in DrawSet, d2 \in DrawSet}
    /\ fnOut = NoValue
    /\ BoardIdle
    /\ FinIdle
    /\ BisIdle
    /\ GameIdle
    /\ RlxIdle
    /\ RunIdle
    /\ DetIdle

LinesCall ==
    /\ fnIn.fn = "generateParallelLines"
    /\ fnOut = NoValue
    /\ LET lines == generateParallelLines(fnIn.size, fnIn.ds)
       IN  fnOut' = [lines |-> lines,
                     planes |-> makeRegionPlanes(fnIn.size, lines)]
    /\ UNCHANGED <<fnIn, rngVars, boardVars, detVars, fin, bis, game, run, rlx>>

SpecLines == LinesInit /\ [][LinesCall]_vars

\* buildCellsForRegion on its own, and as buildBoard calls it: with sites
\* that went through clampToPlanesByBisection (lines 1823-1825)
CellSites == {Pt(0, 0), Pt(25, 16), Pt(50, 20), Pt(50, 50), Pt(-5, 60)}

\* values of voronoi.cellPolygon: null, two entries, a closed polygon of
\* three entries, the closed bounds, a closed triangle in a corner
CellRaws ==
    { Null,
      <<Pt(0, 0), Pt(50, 0)>>,
      <<Pt(0, 0), Pt(50, 0), Pt(0, 0)>>,
      <<Pt(0, 0), Pt(50, 0), Pt(50, 50), Pt(0, 50), Pt(0, 0)>>,
      <<Pt(30, 40), Pt(50, 40), Pt(50, 50), Pt(30, 40)>> }

SiteCounts == {0, 1, 2}

InsidePoints(planes) ==
    {p \in {Pt(25, y) : y \in {5, 15, 25, 35, 45}} :
        \A i \in 1..Len(planes) : PlaneValue(p, planes[i]) < 0}

CellsInit ==
    /\ RngIdle
    /\ \E s \in ClipSize, l \in LineSets(50), k \in Regions, n \in SiteCounts :
       \E inside \in InsidePoints(makeRegionPlanes(s, l)[k]) :
       \E cand \in [1..n -> CellSites], raws \in [1..n -> CellRaws] :
       \E via \in {"buildBoard", "direct"} :
          fnIn = [fn |-> "buildCellsForRegion", size |-> s, lines |-> l,
                  key |-> k, inside |-> inside, via |-> via, raws |-> raws,
                  points |-> IF via = "direct" THEN cand
                             ELSE [i \in 1..n |->
                                     clampToPlanesByBisection(cand[i], inside,
                                         makeRegionPlanes(s, l)[k])]]
    /\ fnOut = NoValue
    /\ BoardIdle
    /\ FinIdle
    /\ BisIdle
    /\ GameIdle
    /\ RlxIdle
    /\ RunIdle
    /\ DetIdle

CellsCall ==
    /\ fnIn.fn = "buildCellsForRegion"
    /\ fnOut = NoValue
    /\ LET planes == makeRegionPlanes(fnIn.size, fnIn.lines)
       IN  fnOut' = [cells |-> buildRegionCells(fnIn.points, fnIn.raws, fnIn.size,
                                                planes[fnIn.key]),
                     pad |-> IF fnIn.key = "mid" /\ fnIn.via = "buildBoard"
                             THEN <<PadCellAt(fnIn.inside, fnIn.size, planes.mid)>>
                             ELSE <<>>]
    /\ UNCHANGED <<fnIn, rngVars, boardVars, detVars, fin, bis, game, run, rlx>>

SpecCells == CellsInit /\ [][CellsCall]_vars

\* steps 8 and 9 of buildBoard for one region: Lloyd, separation, cells
MaxLloydIters == 2

FinalSize == {1000}

\* horizontal cut lines with the first band as narrow as it can be
FinalLines(size) ==
    generateParallelLines(size, <<EvenDraws, <<0, 0>>, <<65535, 65535>>,
                                  <<65535, 65535>>>>)

\* the sites point(s) L.pts may hold when step 8 begins
FinalSiteLists ==
    { <<Pt(500, 40), Pt(500, 90), Pt(500, 140)>>,
      <<Pt(500, 90), Pt(500, 90)>>,
      <<Pt(200, 90), Pt(500, 90), Pt(500, 90)>>,
      <<Pt(100, 40), Pt(900, 140)>>,
      <<Pt(500, 40), Pt(500, 90)>>,
      <<Pt(500, 90)>> }

\* regionZones of the region: none, a zone within the band, and the zone of a
\* motif of a region of five sites (avg = 190, extent = 0.6 * 2.4 * avg, r =
\* extent + 1.15 * avg), which reaches beyond both cut lines
FinalZones ==
    {<<>>, <<[cx |-> 500, cy |-> 90, r |-> 60]>>, <<[cx |-> 500, cy |-> 90, r |-> 491]>>}

LloydCentroids == {Null, Pt(300, 90)}

\* the values of rand() for px and py in a nudge: both smallest, both 1/2
\* (no move), largest and smallest
NudgeDraws ==
    {<<<<0, 0>>, <<0, 0>>>>, <<<<32768, 0>>, <<32768, 0>>>>,
     <<<<65535, 65535>>, <<0, 0>>>>}

FinalInit ==
    /\ RngIdle
    /\ \E s \in FinalSize, sites \in FinalSiteLists, zones \in FinalZones,
          iters \in 0..MaxLloydIters :
       \E mask \in [1..Len(sites) -> BOOLEAN] :
          LET planes == makeRegionPlanes(s, FinalLines(s)).left
              poly == regionPolyFromPlanes(s, planes)
          IN  fnIn = [fn |-> "finalize", size |-> s, planes |-> planes,
                      inside |-> Pt((poly[1][1] + poly[3][1]) \div 2,
                                    (poly[1][2] + poly[3][2]) \div 2),
                      area |-> RegionArea(poly), points |-> sites,
                      fixedMask |-> mask, zones |-> zones, iters |-> iters]
    /\ fnOut = NoValue
    /\ BoardIdle
    /\ DetIdle
    /\ fin = [step |-> "lloyd", t |-> 0, pass |-> 0, pts |-> fnIn.points,
              sepIn |-> <<>>, minDist |-> 0, ops |-> <<>>, returned |-> <<>>]
    /\ BisIdle
    /\ GameIdle
    /\ RlxIdle
    /\ RunIdle

FinalFrame == UNCHANGED <<fnIn, rngVars, boardVars, detVars, bis, game, run, rlx>>

\* one iteration of lloydRelaxInRegionAnchored
FLloyd(answers, dir, nd) ==
    /\ fin # NoValue /\ fin.step = "lloyd" /\ fin.t < fnIn.iters
    /\ fin' = [fin EXCEPT
                !.pts = LloydIteration(fin.pts, fnIn.fixedMask, answers, fnIn.planes,
                                       fnIn.inside, fnIn.zones, dir, nd),
                !.t = fin.t + 1,
                !.ops = Append(fin.ops, "lloyd")]
    /\ UNCHANGED fnOut
    /\ FinalFrame

\* the call of enforceMinDistanceAnchored up to its first operation
FSeparate ==
    /\ fin # NoValue /\ fin.step = "lloyd" /\ fin.t = fnIn.iters
    /\ LET minDist == minDistFromArea(fnIn.area, Len(fin.pts))
       IN  fin' = [fin EXCEPT
                     !.step = IF Len(fin.pts) <= 1 \/ ~(minDist > 0)
                              THEN "cells" ELSE "zones",
                     !.minDist = minDist,
                     !.sepIn = fin.pts,
                     !.returned = fin.pts]
    /\ UNCHANGED fnOut
    /\ FinalFrame

\* the zone push that begins a pass
FZones(dir) ==
    /\ fin # NoValue /\ fin.step = "zones"
    /\ fin' = [fin EXCEPT
                !.pts = ZonePushFree(fin.pts, fnIn.fixedMask, fnIn.zones, fnIn.planes,
                                     fnIn.inside, dir),
                !.ops = IF fnIn.zones = <<>> THEN fin.ops ELSE Append(fin.ops, "zones"),
                !.step = SepAfter(fin.step, fin.pass).step,
                !.pass = SepAfter(fin.step, fin.pass).pass]
    /\ UNCHANGED fnOut
    /\ FinalFrame

FSweep(dir) ==
    /\ fin # NoValue /\ fin.step \in {"sweep", "resweep", "final1", "final2"}
    /\ \E swept \in {separationSweep(fin.pts, fin.minDist, fnIn.planes,
                                     fnIn.inside, dir)} :
          fin' = [fin EXCEPT
                    !.pts = swept,
                    !.returned = swept,
                    !.ops = Append(fin.ops, "sweep"),
                    !.step = SepAfter(fin.step, fin.pass).step,
                    !.pass = SepAfter(fin.step, fin.pass).pass]
    /\ UNCHANGED fnOut
    /\ FinalFrame

\* nudgeDuplicatesWithinPlanes(points, planes, insidePoint, rand, null)
FNudge(nd) ==
    /\ fin # NoValue /\ fin.step = "nudge"
    /\ \E nudged \in {nudgeDuplicatesWithinPlanes(fin.pts, fnIn.planes,
                                                  fnIn.inside, nd, <<>>)} :
          fin' = [fin EXCEPT
                    !.pts = nudged,
                    !.returned = nudged,
                    !.ops = Append(fin.ops, "nudge"),
                    !.step = SepAfter(fin.step, fin.pass).step,
                    !.pass = SepAfter(fin.step, fin.pass).pass]
    /\ UNCHANGED fnOut
    /\ FinalFrame

\* buildCellsForRegion on the sites the region holds now
FCells(raw) ==
    /\ fin # NoValue /\ fin.step = "cells"
    /\ fnOut' = [sites |-> fin.pts,
                 cells |-> buildRegionCells(fin.pts, [i \in 1..Len(fin.pts) |-> raw],
                                            fnIn.size, fnIn.planes)]
    /\ fin' = [fin EXCEPT !.step = "done", !.ops = Append(fin.ops, "cells")]
    /\ FinalFrame

FinalLloyd ==
    \E answers \in [1..Len(fnIn.points) -> LloydCentroids] :
    \E dir \in AngleDraws : \E nd \in NudgeDraws : FLloyd(answers, dir, nd)
FinalZonePush == \E dir \in AngleDraws : FZones(dir)
FinalSweep == \E dir \in AngleDraws : FSweep(dir)
FinalNudge == \E nd \in NudgeDraws : FNudge(nd)
FinalCells == \E raw \in {Null} : FCells(raw)

FinalNext ==
    FinalLloyd \/ FSeparate \/ FinalZonePush \/ FinalSweep \/ FinalNudge \/ FinalCells

SpecFinal == FinalInit /\ [][FinalNext]_vars

\* clampToPlanesByBisection on its own, one iteration of its loop at a time
BisectPlaneSets ==
    { makeSquarePlanes(50),
      makeSquarePlanes(50) \o << [a |-> 0, b |-> 1, c |-> 18] >>,
      makeSquarePlanes(50) \o << [a |-> 0, b |-> -1, c |-> -18],
                                 [a |-> 0, b |-> 1, c |-> 34] >> }

BisectPoints == {FxPt(x, y) : x \in {-5, 0, 25, 50, 60},
                              y \in {-3, 0, 17, 18, 19, 27, 34, 40, 60}}

\* the anchors: points that satisfy every half-plane with no tolerance
BisectAnchors(planes) ==
    {a \in {FxPt(25, 9), FxPt(25, 17), FxPt(25, 18), FxPt(0, 0), FxPt(50, 34)} :
        \A j \in 1..Len(planes) : FxInsidePlaneExact(a, planes[j])}

BisectInit ==
    /\ RngIdle
    /\ \E planes \in BisectPlaneSets, p \in BisectPoints :
       \E a \in BisectAnchors(planes) :
          fnIn = [fn |-> "clampToPlanesByBisection", p |-> p, insidePoint |-> a,
                  planes |-> planes]
    /\ fnOut = NoValue
    /\ BoardIdle
    /\ FinIdle
    /\ GameIdle
    /\ RlxIdle
    /\ RunIdle
    /\ DetIdle
    /\ bis = [pc |-> "entry", lo |-> <<>>, hi |-> <<>>, i |-> 0, steps |-> 0]

BisectFrame == UNCHANGED <<fnIn, rngVars, boardVars, detVars, fin, game, run, rlx>>

\* if (isInsideAllPlanes(p, planes)) return p; let lo = insidePoint; let hi = p
BisectEnter ==
    /\ bis # NoValue
    /\ bis.pc = "entry"
    /\ IF FxInsideAllPlanes(fnIn.p, fnIn.planes)
       THEN /\ bis' = [bis EXCEPT !.pc = "returned"]
            /\ fnOut' = fnIn.p
       ELSE /\ bis' = [bis EXCEPT !.pc = "loop", !.lo = fnIn.insidePoint,
                                  !.hi = fnIn.p, !.i = 0]
            /\ UNCHANGED fnOut
    /\ BisectFrame

\* one iteration of the loop
BisectStep ==
    /\ bis # NoValue
    /\ bis.pc = "loop"
    /\ bis.i < BisectIters
    /\ \E next \in {BisectBody(bis.lo, bis.hi, fnIn.planes)} :
          bis' = [bis EXCEPT !.lo = next.lo, !.hi = next.hi, !.i = @ + 1,
                             !.steps = @ + 1]
    /\ UNCHANGED fnOut
    /\ BisectFrame

\* the loop ended: return lo
BisectReturn ==
    /\ bis # NoValue
    /\ bis.pc = "loop"
    /\ ~(bis.i < BisectIters)
    /\ bis' = [bis EXCEPT !.pc = "returned"]
    /\ fnOut' = bis.lo
    /\ BisectFrame

BisectNext == BisectEnter \/ BisectStep \/ BisectReturn

SpecBisect == BisectInit /\ [][BisectNext]_vars

(***************************************************************************)
(* buildBoard followed one loop iteration at a time.  The coordinates are  *)
(* left out: a test of the code that depends on them (a key already seen,  *)
(* a margin reached) may come out either way each time it is evaluated.    *)
(* A call of clampToPlanesByBisection is one step here; its own loop is    *)
(* the subject of SpecBisect.  The field back says where the running       *)
(* nudgeDuplicatesWithinPlanes or separationSweep was called from.         *)
(***************************************************************************)
LoopCounts == {1, 2, 3, 40}

\* the draws of generateParallelLines: three even bands, and a narrow first
\* band
LoopLineDraws ==
    { <<EvenDraws, EvenDraws, EvenDraws, EvenDraws>>,
      <<EvenDraws, <<0, 0>>, <<65535, 65535>>, <<65535, 65535>>>> }

\* the bounds of moveTowardInsideToSatisfyMargin and of the while loop of
\* nudgeDuplicatesWithinPlanes
\* relaxIters of the calls followed: relaxation skipped, and two iterations
LoopRelaxInputs == {<<0>>, <<2>>}

\* the values of rand() followed where the code draws one: the smallest and
\* the largest
LoopDraws == {<<0, 0>>, <<65535, 65535>>}

MarginIters == 28
NudgeTries == 24

LoopsInit ==
    /\ RngIdle
    /\ FnIdle
    /\ BoardIdle
    /\ FinIdle
    /\ BisIdle
    /\ GameIdle
    /\ RlxIdle
    /\ DetIdle
    /\ \E n \in LoopCounts, r \in LoopRelaxInputs, ds \in LoopLineDraws :
          run = [at |-> "allocate",
                 N |-> PieceCountOf([pieceCount |-> n, relaxIters |-> r]),
                 relaxIters |-> RelaxItersOf([pieceCount |-> n, relaxIters |-> r]),
                 areas |-> RegionAreas(ds), base |-> ZeroRegions, order |-> Keys,
                 extra |-> 0, idx |-> 0, plan |-> <<>>, targets |-> <<>>,
                 mi |-> 0, usedS |-> 0, S |-> ZeroRegions, mpts |-> 0,
                 walk |-> 0, r |-> 1, n |-> ZeroRegions, kUse |-> 0,
                 candN |-> 0, ct |-> 0, k |-> 0, s |-> 0, i |-> 0, j |-> 0,
                 t |-> 0,
                 pass |-> 0, tries |-> 0, back |-> "none", cells |-> 0]

LoopFrame == UNCHANGED <<rngVars, fnVars, boardVars, detVars, fin, bis, game, rlx>>

At(loc) == run # NoValue /\ run.at = loc

\* the region the three calls per region are at: Keys[run.r]
RunKey == Keys[run.r]

\* allocateByArea up to the sort of frac: the early returns and the loop
\* over the keys
LAllocate ==
    /\ At("allocate")
    /\ IF run.N <= 2
       THEN run' = [run EXCEPT !.at = "plan",
                               !.base = allocateByArea(run.N, run.areas, Keys)]
       ELSE \E sumA \in {run.areas.left + run.areas.mid + run.areas.right} :
            \E base \in {[k \in Regions |->
                            FloorShare(run.N - 3, run.areas[k], sumA)]} :
               run' = [run EXCEPT
                         !.at = "extra", !.base = base,
                         !.order = FracOrder([k \in Regions |->
                                                ((run.N - 3) * run.areas[k]) % sumA],
                                             Keys),
                         !.extra = run.N - Total(base), !.idx = 0]
    /\ LoopFrame

\* while (extra > 0) { base[frac[idx % frac.length].k] += 1; extra--; idx++ }
LExtra ==
    /\ At("extra")
    /\ IF run.extra > 0
       THEN run' = [run EXCEPT !.base[run.order[(run.idx % 3) + 1]] = @ + 1,
                               !.extra = @ - 1, !.idx = @ + 1]
       ELSE run' = [run EXCEPT !.at = "trim"]
    /\ LoopFrame

\* the region the second while loop of allocateByArea takes from first
TrimKey(areas) ==
    IF areas.left >= areas.mid /\ areas.left >= areas.right THEN "left"
    ELSE IF areas.right >= areas.left /\ areas.right >= areas.mid THEN "right"
    ELSE "mid"

\* the body of that loop; the value is base itself when the loop breaks
TrimStep(base, areas) ==
    IF base[TrimKey(areas)] > 1 THEN [base EXCEPT ![TrimKey(areas)] = @ - 1]
    ELSE IF base.mid > 1 THEN [base EXCEPT !.mid = @ - 1]
    ELSE IF base.left > 1 THEN [base EXCEPT !.left = @ - 1]
    ELSE IF base.right > 1 THEN [base EXCEPT !.right = @ - 1]
    ELSE base

\* while (base.left + base.mid + base.right > totalN) { ... else break }
LTrim ==
    /\ At("trim")
    /\ IF Total(run.base) > run.N /\ TrimStep(run.base, run.areas) # run.base
       THEN run' = [run EXCEPT !.base = TrimStep(run.base, run.areas)]
       ELSE run' = [run EXCEPT !.at = "plan"]
    /\ LoopFrame

\* step 4: the motif plan and the target regions
LPlan ==
    /\ At("plan")
    /\ \E d \in LoopDraws :
       \E plan \in {buildMotifPlan(run.N, <<d>>)} :
          run' = [run EXCEPT !.at = "motif", !.plan = plan,
                             !.targets = TargetRegions(run.areas, plan),
                             !.mi = 0, !.usedS = 0]
    /\ LoopFrame

\* the number of turns of the loops of buildMotifInRegion that push points:
\* n for a ring, k * n for a grid
MotifLoopTurns(param) ==
    IF param.type \in {1, 2} THEN param.n ELSE param.k * param.n

\* step 5: for (let i = 0; i < motifPlan.length; i++) { if (!reg) break; ...
\* chooseMotifParam ... buildMotifInRegion up to the call of
\* moveTowardInsideToSatisfyMargin
LMotif ==
    /\ At("motif")
    /\ IF run.mi < Len(run.plan) /\ run.mi < Len(run.targets)
       THEN \E d \in LoopDraws :
            \E param \in {chooseMotifParam(run.plan[run.mi + 1],
                             MaxPointsFor(run.plan, run.mi + 1,
                                          run.base[run.targets[run.mi + 1]],
                                          run.N, run.usedS), d)} :
               run' = [run EXCEPT !.at = "walk", !.walk = 0,
                                  !.usedS = @ + param.count,
                                  !.S[run.targets[run.mi + 1]] = param.count,
                                  !.mpts = MotifLoopTurns(param)]
       ELSE run' = [run EXCEPT !.at = "macro", !.r = 1, !.i = 0]
    /\ LoopFrame

\* moveTowardInsideToSatisfyMargin: for (let i = 0; i < 28; i++) { if
\* (minPlaneDistance(q, planes) >= margin) return q; ... }
LWalk ==
    /\ At("walk")
    /\ \E reached \in BOOLEAN :
          IF run.walk < MarginIters /\ ~reached
          THEN run' = [run EXCEPT !.walk = @ + 1]
          ELSE run' = [run EXCEPT !.at = "motifPts", !.i = 0, !.walk = 0]
    /\ LoopFrame

\* the loop of buildMotifInRegion that pushes the points (lines 1508 and
\* 1539-1540), then the next turn of the loop of step 5
LMotifPts ==
    /\ At("motifPts")
    /\ IF run.i < run.mpts
       THEN run' = [run EXCEPT !.i = @ + 1]
       ELSE run' = [run EXCEPT !.at = "motif", !.mi = @ + 1, !.i = 0, !.mpts = 0]
    /\ LoopFrame

\* macroCount and microCount of buildRegionPoints for the region at hand
RunCounts == NonStructCounts(run.base[RunKey], run.S[RunKey])

\* generateNonStructPoints: for (let i = 0; i < macroCount; i++), then K,
\* kUse and candN
LMacro ==
    /\ At("macro")
    /\ IF run.i < RunCounts.macro
       THEN run' = [run EXCEPT !.i = @ + 1]
       ELSE \E dK \in LoopDraws :
            \E kUse \in {Min(Min(4, Max(2, 2 + FloorMul(dK, 3))),
                             Max(1, RunCounts.macro))} :
               run' = [run EXCEPT !.at = "cand", !.ct = 0, !.kUse = kUse,
                                  !.candN = Max(32, kUse * 16)]
    /\ LoopFrame

\* for (let t = 0; t < candN; t++), then the call of pickCentersMaximin
LCand ==
    /\ At("cand")
    /\ IF run.ct < run.candN
       THEN run' = [run EXCEPT !.ct = @ + 1]
       ELSE IF run.kUse <= 1
            THEN run' = [run EXCEPT !.at = "micro", !.i = 0, !.ct = 0,
                                    !.kUse = 0, !.candN = 0]
            ELSE run' = [run EXCEPT !.at = "centers", !.k = 1, !.i = 0, !.s = 0,
                                    !.ct = 0]
    /\ LoopFrame

\* pickCentersMaximin: for (k = 1; k < kUse; k++) for (i = 0; i <
\* cand.length; i++) for (s = 0; s < centers.length; s++); cand holds
\* candN - k entries and centers k entries in turn k, and the loop breaks
\* when cand is empty
LCenters ==
    /\ At("centers")
    /\ IF run.k < run.kUse
       THEN IF run.i < run.candN - run.k
            THEN IF run.s < run.k
                 THEN run' = [run EXCEPT !.s = @ + 1]
                 ELSE run' = [run EXCEPT !.i = @ + 1, !.s = 0]
            ELSE IF run.candN - run.k - 1 = 0
                 THEN run' = [run EXCEPT !.at = "micro", !.i = 0, !.s = 0,
                                         !.k = 0, !.kUse = 0, !.candN = 0]
                 ELSE run' = [run EXCEPT !.k = @ + 1, !.i = 0, !.s = 0]
       ELSE run' = [run EXCEPT !.at = "micro", !.i = 0, !.s = 0, !.k = 0,
                               !.kUse = 0, !.candN = 0]
    /\ LoopFrame

\* for (let i = 0; i < microCount; i++), then pts = structPts.concat(...)
LMicro ==
    /\ At("micro")
    /\ IF run.i < RunCounts.micro
       THEN run' = [run EXCEPT !.i = @ + 1]
       ELSE run' = [run EXCEPT !.at = "clamp", !.i = 0,
                               !.n[RunKey] = run.S[RunKey] + RunCounts.macro
                                             + RunCounts.micro]
    /\ LoopFrame

\* buildRegionPoints: for (let i = 0; i < pts.length; i++) pts[i] =
\* clampToPlanesByBisection(...), then the call of
\* nudgeDuplicatesWithinPlanes
LClamp ==
    /\ At("clamp")
    /\ IF run.i < run.n[RunKey]
       THEN run' = [run EXCEPT !.i = @ + 1]
       ELSE run' = [run EXCEPT !.at = "nudge", !.i = 0, !.back = "points"]
    /\ LoopFrame

\* the statement after a call of nudgeDuplicatesWithinPlanes returned
AfterNudge ==
    IF run.back = "points"
    THEN IF run.r < 3
         THEN [run EXCEPT !.at = "macro", !.r = @ + 1, !.i = 0, !.back = "none"]
         ELSE [run EXCEPT !.at = "relax", !.r = 1, !.t = 0, !.i = 0,
                          !.back = "none"]
    ELSE IF run.back = "lloyd"
    THEN [run EXCEPT !.at = "lloydZones", !.i = 0, !.back = "none"]
    ELSE [run EXCEPT !.at = "sweep", !.i = 0, !.j = 1, !.back = "second"]

\* nudgeDuplicatesWithinPlanes: for (let i = 0; i < points.length; i++) {
\* if (!seen.has(key)) continue; ... both fixed: continue; ... }; seen is
\* empty in the first turn
LNudge ==
    /\ At("nudge")
    /\ IF run.i < run.n[RunKey]
       THEN \E has \in BOOLEAN, bothFixed \in BOOLEAN :
               IF run.i = 0 \/ ~has \/ bothFixed
               THEN run' = [run EXCEPT !.i = @ + 1]
               ELSE run' = [run EXCEPT !.at = "tries", !.tries = 0]
       ELSE run' = AfterNudge
    /\ LoopFrame

\* the loop test with no bound on tries
TriesUncapped(has, tries) == has

\* seen.has(kkey) && tries < 24
TriesGoOn(has, tries) == has /\ tries < NudgeTries

\* while (seen.has(kkey) && tries < 24) { ...; tries++ }
LTries ==
    /\ At("tries")
    /\ \E has \in BOOLEAN :
          IF TriesGoOn(has, run.tries)
          THEN run' = [run EXCEPT !.tries = @ + 1]
          ELSE run' = [run EXCEPT !.at = "nudge", !.i = @ + 1, !.tries = 0]
    /\ LoopFrame

\* zones && zones.length for the region at hand: the region hosts a motif
RunZones == run.S[RunKey] > 0

\* step 8: if (relaxIters > 0) the three calls of lloydRelaxInRegionAnchored,
\* each with for (let t = 0; t < iters; t++)
LRelax ==
    /\ At("relax")
    /\ IF run.relaxIters > 0 /\ run.r <= 3
       THEN IF run.t < run.relaxIters
            THEN run' = [run EXCEPT !.at = "lloydPts", !.i = 0]
            ELSE IF run.r < 3
                 THEN run' = [run EXCEPT !.r = @ + 1, !.t = 0]
                 ELSE run' = [run EXCEPT !.at = "sep", !.r = 1, !.t = 0, !.pass = 0]
       ELSE run' = [run EXCEPT !.at = "sep", !.r = 1, !.t = 0, !.pass = 0]
    /\ LoopFrame

\* lloydRelaxInRegionAnchored: for (let i = 0; i < pts.length; i++), then
\* the call of nudgeDuplicatesWithinPlanes
LLloydPts ==
    /\ At("lloydPts")
    /\ IF run.i < run.n[RunKey]
       THEN run' = [run EXCEPT !.i = @ + 1]
       ELSE run' = [run EXCEPT !.at = "nudge", !.i = 0, !.back = "lloyd"]
    /\ LoopFrame

\* if (zones && zones.length) for (let i = 0; i < pts.length; i++), then
\* the next turn of the loop over t
LLloydZones ==
    /\ At("lloydZones")
    /\ IF RunZones /\ run.i < run.n[RunKey]
       THEN run' = [run EXCEPT !.i = @ + 1]
       ELSE run' = [run EXCEPT !.at = "relax", !.t = @ + 1, !.i = 0]
    /\ LoopFrame

\* the three calls of enforceMinDistanceAnchored: if (n <= 1 || !(minDist >
\* 0)) return points; for (let pass = 0; pass < passes; pass++); then the
\* two last sweeps
LSep ==
    /\ At("sep")
    /\ IF run.r > 3
       THEN run' = [run EXCEPT !.at = "cells", !.r = 1, !.i = 0]
       ELSE IF run.n[RunKey] <= 1
            THEN run' = [run EXCEPT !.r = @ + 1, !.pass = 0]
            ELSE IF run.pass < Passes
                 THEN run' = [run EXCEPT !.at = "sepZones", !.i = 0]
                 ELSE run' = [run EXCEPT !.at = "sweep", !.i = 0, !.j = 1,
                                         !.back = "final1"]
    /\ LoopFrame

\* if (zones && zones.length) for (let i = 0; i < n; i++), then the first
\* sweep of the pass
LSepZones ==
    /\ At("sepZones")
    /\ IF RunZones /\ run.i < run.n[RunKey]
       THEN run' = [run EXCEPT !.i = @ + 1]
       ELSE run' = [run EXCEPT !.at = "sweep", !.i = 0, !.j = 1, !.back = "first"]
    /\ LoopFrame

\* the statement after a call of separationSweep returned
AfterSweep ==
    IF run.back = "first"
    THEN [run EXCEPT !.at = "nudge", !.i = 0, !.j = 0, !.back = "sep"]
    ELSE IF run.back = "second"
    THEN [run EXCEPT !.at = "sep", !.pass = @ + 1, !.i = 0, !.j = 0,
                     !.back = "none"]
    ELSE IF run.back = "final1"
    THEN [run EXCEPT !.i = 0, !.j = 1, !.back = "final2"]
    ELSE [run EXCEPT !.at = "sep", !.r = @ + 1, !.pass = 0, !.i = 0, !.j = 0,
                     !.back = "none"]

\* separationSweep: for (let i = 0; i < n; i++) for (let j = i + 1; j < n;
\* j++)
LSweep ==
    /\ At("sweep")
    /\ IF run.i < run.n[RunKey]
       THEN IF run.j < run.n[RunKey]
            THEN run' = [run EXCEPT !.j = @ + 1]
            ELSE run' = [run EXCEPT !.i = @ + 1, !.j = run.i + 2]
       ELSE run' = AfterSweep
    /\ LoopFrame

\* step 9: the three calls of buildCellsForRegion, each with for (let i = 0;
\* i < points.length; i++) cells.push(...)
LCells ==
    /\ At("cells")
    /\ IF run.r <= 3
       THEN IF run.i < run.n[RunKey]
            THEN run' = [run EXCEPT !.i = @ + 1, !.cells = @ + 1]
            ELSE run' = [run EXCEPT !.r = @ + 1, !.i = 0]
       ELSE run' = [run EXCEPT !.at = IF run.cells # run.N THEN "pop" ELSE "shuffle",
                               !.i = run.N - 1]
    /\ LoopFrame

\* while (cellsAll.length > N) cellsAll.pop()
LPop ==
    /\ At("pop")
    /\ IF run.cells > run.N
       THEN run' = [run EXCEPT !.cells = @ - 1]
       ELSE run' = [run EXCEPT !.at = "pad"]
    /\ LoopFrame

\* while (cellsAll.length < N) cellsAll.push(...)
LPad ==
    /\ At("pad")
    /\ IF run.cells < run.N
       THEN run' = [run EXCEPT !.cells = @ + 1]
       ELSE run' = [run EXCEPT !.at = "shuffle", !.i = run.N - 1]
    /\ LoopFrame

\* shuffleInPlace: for (let i = arr.length - 1; i > 0; i--)
LShuffle ==
    /\ At("shuffle")
    /\ IF run.i > 0
       THEN run' = [run EXCEPT !.i = @ - 1]
       ELSE run' = [run EXCEPT !.at = "number", !.i = 0]
    /\ LoopFrame

\* for (let i = 0; i < N; i++) cellsAll[i].num = nums[i]; return
LNumber ==
    /\ At("number")
    /\ IF run.i < run.N
       THEN run' = [run EXCEPT !.i = @ + 1]
       ELSE run' = [run EXCEPT !.at = "return"]
    /\ LoopFrame

LoopsNext ==
    \/ LAllocate
    \/ LExtra
    \/ LTrim
    \/ LPlan
    \/ LMotif
    \/ LWalk
    \/ LMotifPts
    \/ LMacro
    \/ LCand
    \/ LCenters
    \/ LMicro
    \/ LClamp
    \/ LNudge
    \/ LTries
    \/ LRelax
    \/ LLloydPts
    \/ LLloydZones
    \/ LSep
    \/ LSepZones
    \/ LSweep
    \/ LCells
    \/ LPop
    \/ LPad
    \/ LShuffle
    \/ LNumber

\* a running call takes its next step
SpecLoops == LoopsInit /\ [][LoopsNext]_vars /\ WF_vars(LoopsNext)

(***************************************************************************)
(* main.js : the game loop                                                 *)
(*                                                                         *)
(* game is the record of the object game (state, config, startPerf,        *)
(* elapsedMs, timerId, current, next, total) with, beside it, what the     *)
(* page holds: screen (the screen that is not hidden), cells (the number   *)
(* of cell paths renderBoard made), now (performance.now(), in             *)
(* milliseconds), intervals (the ids of the intervals set and not          *)
(* cleared) and last (the handler that ran last).                          *)
(***************************************************************************)
IDLE == "idle"
PLAYING == "playing"
PAUSED == "paused"
FINISHED == "finished"

PIECE_OPTIONS == {12, 20, 50, 100}
WRONG_PENALTY_SEC == 10

\* total: 20 of the object game as the script builds it
InitialTotal == 20

\* timerId: null; window.setInterval returns a positive integer
NullTimer == 0

\* readConfigFromUI, the fields the game loop reads
readConfigFromUI(pieces) ==
    [pieceCount |-> pieces, wrongPenaltySec |-> WRONG_PENALTY_SEC]

\* the id window.setInterval returns: one no interval of the page holds
FreshTimer(g) == CHOOSE id \in 1..(Cardinality(g.intervals) + 1) : id \notin g.intervals

\* stopTimer left out
stopTimerNot(g) == g

\* if (game.timerId != null) { window.clearInterval(game.timerId);
\* game.timerId = null; }
stopTimer(g) ==
    IF g.timerId # NullTimer
    THEN [g EXCEPT !.intervals = @ \ {g.timerId}, !.timerId = NullTimer]
    ELSE g

SetTimer(g) ==
    [g EXCEPT !.startPerf = g.now, !.timerId = FreshTimer(g),
              !.intervals = @ \cup {FreshTimer(g)}]

\* stopTimer(); game.startPerf = performance.now(); game.timerId =
\* window.setInterval(updateHUD, 60)
startTimer(g) == SetTimer(stopTimer(g))

\* if (game.state === STATE.PLAYING) game.elapsedMs += performance.now() -
\* game.startPerf
freezeElapsed(g) ==
    IF g.state = PLAYING THEN [g EXCEPT !.elapsedMs = @ + (g.now - g.startPerf)]
    ELSE g

\* the penalty taken as milliseconds
addPenaltyMs(g, seconds) == [g EXCEPT !.elapsedMs = @ + seconds]

\* game.elapsedMs += seconds * 1000
addPenalty(g, seconds) == [g EXCEPT !.elapsedMs = @ + seconds * 1000]

\* the time updateHUD shows
Elapsed(g) == g.elapsedMs + (IF g.state = PLAYING THEN g.now - g.startPerf ELSE 0)

\* resetRunState without game.next = 1
resetRunStateKeepsNext(g, total) ==
    stopTimer([g EXCEPT !.total = total, !.current = 0,
                        !.elapsedMs = 0, !.startPerf = 0])

\* game.total = total; game.current = 0; game.next = 1; game.elapsedMs = 0;
\* game.startPerf = 0; stopTimer()
resetRunState(g, total) ==
    stopTimer([g EXCEPT !.total = total, !.current = 0, !.next = 1,
                        !.elapsedMs = 0, !.startPerf = 0])

\* buildBoard returns config.pieceCount cells numbered 1..pieceCount, and
\* renderBoard makes one path for each
startNewGame(g, config) ==
    startTimer([resetRunState([g EXCEPT !.config = config,
                                        !.cells = config.pieceCount],
                              config.pieceCount)
                EXCEPT !.state = PLAYING])

finishGame(g) == [stopTimer(freezeElapsed(g)) EXCEPT !.state = FINISHED]

pauseGame(g) ==
    IF g.state # PLAYING THEN g
    ELSE [stopTimer(freezeElapsed(g)) EXCEPT !.state = PAUSED]

resumeGame(g) ==
    IF g.state # PAUSED THEN g
    ELSE startTimer([g EXCEPT !.state = PLAYING])

\* the branch num === game.next with the test of game.next > game.total one
\* click late
HitLate(g, num) ==
    IF g.next > g.total
    THEN finishGame([g EXCEPT !.current = num, !.next = num + 1])
    ELSE [g EXCEPT !.current = num, !.next = num + 1]

\* the branch num === game.next of onCellClick
Hit(g, num) ==
    IF num + 1 > g.total
    THEN finishGame([g EXCEPT !.current = num, !.next = num + 1])
    ELSE [g EXCEPT !.current = num, !.next = num + 1]

onCellClick(g, num) ==
    IF g.state # PLAYING THEN g
    ELSE IF num = g.next THEN Hit(g, num)
    ELSE addPenalty(g, g.config.wrongPenaltySec)

\* the click handler of pauseBtn
onPauseClick(g) ==
    IF g.state = PLAYING THEN pauseGame(g)
    ELSE IF g.state = PAUSED THEN resumeGame(g)
    ELSE g

\* the click handler of newBoardBtn
onNewClick(g) == IF g.config = NoValue THEN g ELSE startNewGame(g, g.config)

\* the click handler of backBtn
onBackClick(g) ==
    [stopTimer(freezeElapsed(g)) EXCEPT !.state = IDLE, !.screen = "start"]

\* the click handler of startBtn
onStartClick(g, pieces) ==
    startNewGame([g EXCEPT !.screen = "game"], readConfigFromUI(pieces))

(***************************************************************************)
(* Specification: the constant relaxIters and step 8 of buildBoard         *)
(***************************************************************************)
\* the most Lloyd iterations a call is followed through
MaxRelaxRun == 3

\* integers given as config.relaxIters: small ones, and the ones around 2^31
\* and 2^32
RelaxInts ==
    {<<0, 0>>, <<0, 1>>, <<0, 2>>, <<0, 3>>, <<32767, 65535>>, <<32768, 0>>,
     <<65535, 65535>>, <<65536, 0>>, <<65536, 1>>, <<65536, 2>>}

RelaxValues ==
    {JsOther(k) : k \in {"undefined", "null", "string", "boolean", "NaN",
                         "Infinity", "-Infinity"}}
    \cup {JsNumber(neg, int, frac) :
            neg \in BOOLEAN, int \in RelaxInts, frac \in {0, 5}}

\* L.pts, M.pts and R.pts when step 8 begins, and the masks of the anchored
\* sites
RelaxSites ==
    [left |-> <<Pt(100, 100), Pt(300, 100)>>,
     mid |-> <<Pt(500, 500), Pt(520, 480)>>,
     right |-> <<Pt(900, 900)>>]

RelaxMasks ==
    [left |-> <<TRUE, FALSE>>, mid |-> <<FALSE, FALSE>>, right |-> <<FALSE>>]

\* the sites of the three regions together
AllSites(sites) == sites.left \o sites.mid \o sites.right

\* the sites given to the provider, were they those of the whole square
VoronoiSitesAll(sites, key) == AllSites(sites)

\* d3.Delaunay.from(pts): pts is the first argument of
\* lloydRelaxInRegionAnchored, which buildBoard calls with L.pts, M.pts and
\* R.pts in turn
VoronoiSites(sites, key) == sites[key]

\* the places a free site may take in one turn: its own (no polygon, or a clip
\* that leaves nothing) or the centroid of its clipped cell, here a step of
\* 10 to the right
LloydPlaces(p) == {p, Pt(p[1] + 10, p[2])}

\* nextPts of one turn, whatever the provider answers
NextSites(points, mask) ==
    {next \in [1..Len(points) -> UNION {LloydPlaces(points[i]) : i \in 1..Len(points)}] :
        \A i \in 1..Len(points) :
            IF mask[i] THEN next[i] = points[i] ELSE next[i] \in LloydPlaces(points[i])}

RlxInit ==
    /\ RngIdle
    /\ FnIdle
    /\ BoardIdle
    /\ DetIdle
    /\ FinIdle
    /\ BisIdle
    /\ GameIdle
    /\ RunIdle
    /\ \E v \in RelaxValues :
          rlx = [at |-> "config", value |-> v, relaxIters |-> <<0, 0>>,
                 r |-> 1, t |-> 0, runs |-> ZeroRegions, moved |-> FALSE,
                 pts |-> RelaxSites, before |-> RelaxSites, from |-> <<>>,
                 of |-> "left"]

RlxFrame == UNCHANGED <<rngVars, fnVars, boardVars, detVars, fin, bis, game, run>>

\* lines 1697-1700
RFinalize ==
    /\ rlx # NoValue /\ rlx.at = "config"
    /\ rlx' = [rlx EXCEPT !.at = "step8", !.relaxIters = RelaxItersExact(rlx.value)]
    /\ RlxFrame

\* if (relaxIters > 0) { ... }
RStep8 ==
    /\ rlx # NoValue /\ rlx.at = "step8"
    /\ rlx' = [rlx EXCEPT !.at = IF rlx.relaxIters # <<0, 0>> THEN "lloyd" ELSE "sep",
                          !.r = 1, !.t = 0]
    /\ RlxFrame

\* the three calls of lloydRelaxInRegionAnchored: for (let t = 0; t < iters;
\* t++), one turn of the loop; a turn may move sites
RLloyd ==
    /\ rlx # NoValue /\ rlx.at = "lloyd"
    /\ IF rlx.relaxIters[1] > 0 \/ rlx.t < rlx.relaxIters[2]
       THEN /\ rlx.t < MaxRelaxRun
            /\ \E next \in NextSites(rlx.pts[Keys[rlx.r]], RelaxMasks[Keys[rlx.r]]) :
                  rlx' = [rlx EXCEPT !.t = @ + 1, !.runs[Keys[rlx.r]] = @ + 1,
                                     !.before = rlx.pts, !.of = Keys[rlx.r],
                                     !.from = VoronoiSites(rlx.pts, Keys[rlx.r]),
                                     !.pts[Keys[rlx.r]] = next,
                                     !.moved = @ \/ next # rlx.pts[Keys[rlx.r]]]
       ELSE IF rlx.r < 3
            THEN rlx' = [rlx EXCEPT !.r = @ + 1, !.t = 0]
            ELSE rlx' = [rlx EXCEPT !.at = "sep", !.t = 0]
    /\ RlxFrame

\* the calls of enforceMinDistanceAnchored and the rest of buildBoard
RReturn ==
    /\ rlx # NoValue /\ rlx.at = "sep"
    /\ rlx' = [rlx EXCEPT !.at = "return"]
    /\ RlxFrame

RlxNext ==
    \/ RFinalize
    \/ RStep8
    \/ RLloyd
    \/ RReturn

SpecRelax == RlxInit /\ [][RlxNext]_vars

(***************************************************************************)
(* Specification: the page of main.js under clicks and the passing of time *)
(***************************************************************************)
\* performance.now() is followed up to MaxNow milliseconds, and wrong clicks
\* while the elapsed time is below MaxPenalties penalties
MaxNow == 1
MaxPenalties == 2

GameInit ==
    /\ RngIdle
    /\ FnIdle
    /\ BoardIdle
    /\ DetIdle
    /\ FinIdle
    /\ BisIdle
    /\ RlxIdle
    /\ RunIdle
    /\ game = [state |-> IDLE, config |-> NoValue, startPerf |-> 0, elapsedMs |-> 0,
               timerId |-> NullTimer, current |-> 0, next |-> 1,
               total |-> InitialTotal, screen |-> "start", cells |-> 0, now |-> 0,
               intervals |-> {}, last |-> "load"]

GameFrame == UNCHANGED <<rngVars, fnVars, boardVars, detVars, fin, bis, run, rlx>>

\* the numbers of the cells a click is followed on: the next one, its
\* neighbours, the first and the last
ClickNums ==
    {game.next - 1, game.next, game.next + 1, 1, game.total} \cap 1..game.cells

\* a click on startBtn, which the start screen shows
GStart ==
    /\ game # NoValue /\ game.screen = "start"
    /\ \E pieces \in PIECE_OPTIONS :
          game' = [onStartClick(game, pieces) EXCEPT !.last = "start"]
    /\ GameFrame

\* a click on newBoardBtn, which the game screen shows
GNew ==
    /\ game # NoValue /\ game.screen = "game"
    /\ game' = [onNewClick(game) EXCEPT !.last = "new"]
    /\ GameFrame

GPause ==
    /\ game # NoValue /\ game.screen = "game"
    /\ game' = [onPauseClick(game) EXCEPT !.last = "pause"]
    /\ GameFrame

GBack ==
    /\ game # NoValue /\ game.screen = "game"
    /\ game' = [onBackClick(game) EXCEPT !.last = "back"]
    /\ GameFrame

\* a click event on the path of the cell num, in any state of the game: the
\* listener stays on the path when the path is not displayed
GCell ==
    /\ game # NoValue
    /\ \E num \in ClickNums :
          /\ num = game.next \/ game.state # PLAYING
             \/ game.elapsedMs < MaxPenalties * 1000 * WRONG_PENALTY_SEC
          /\ game' = [onCellClick(game, num) EXCEPT
                        !.last = IF num = game.next THEN "cell" ELSE "other cell"]
    /\ GameFrame

\* a millisecond passes; the interval's callback updateHUD writes to the page
\* only
GTick ==
    /\ game # NoValue /\ game.now < MaxNow
    /\ game' = [game EXCEPT !.now = @ + 1, !.last = "tick"]
    /\ GameFrame

GameNext ==
    \/ GStart
    \/ GNew
    \/ GPause
    \/ GBack
    \/ GCell
    \/ GTick

SpecGame == GameInit /\ [][GameNext]_vars

(***************************************************************************)
(* Properties                                                              *)
(***************************************************************************)
\* the assignment loop of buildBoard has ended
MotifsAssigned == pc \in {"points", "finalize", "cells", "fix", "label", "done"}

C2_LabelsPermutation ==
    pc = "done" =>
        /\ Len(result.cells) = N
        /\ {result.cells[i].num : i \in 1..Len(result.cells)} = 1..N

\* a board was returned whose first and last labels were moved by the shuffle
C2_Witness ==
    /\ pc = "done"
    /\ N >= 3
    /\ result.cells[1].num # 1
    /\ result.cells[N].num # N

C5_MotifBudget ==
    MotifsAssigned =>
        /\ usedS <= (4 * N) \div 10
        /\ Len(regionStruct.left) + Len(regionStruct.mid)
           + Len(regionStruct.right) <= (4 * N) \div 10

\* C6: one motif when N <= 30, in a region of largest area; two motifs when
\* 30 < N <= 70, in the two regions of largest area; the motifs are in
\* pairwise distinct regions and no region holds more than one motif or more
\* than one exclusion zone.
C6_MotifHosts ==
    MotifsAssigned =>
        /\ Len(targetRegions) = Len(motifParams)
        /\ N <= 30 =>
            /\ Len(motifParams) = 1
            /\ \A k \in Regions : area[targetRegions[1]] >= area[k]
        /\ (N > 30 /\ N <= 70) =>
            /\ Len(motifParams) = 2
            /\ \A k \in Regions \ {targetRegions[1], targetRegions[2]} :
                  /\ area[targetRegions[2]] >= area[k]
                  /\ area[targetRegions[1]] >= area[targetRegions[2]]
        /\ \A i, j \in 1..Len(targetRegions) :
              i # j => targetRegions[i] # targetRegions[j]
        /\ \A k \in Regions :
              /\ Len(regionZones[k]) <= 1
              /\ (regionStruct[k] # <<>>)
                 <=> (\E i \in 1..Len(targetRegions) : targetRegions[i] = k)

\* a board of 31 pieces was returned whose two motifs are not in the first
\* two regions in the order of the keys
C6_Witness ==
    /\ pc = "done"
    /\ N = 31
    /\ Len(motifParams) = 2
    /\ targetRegions[1] = "right"
    /\ regionStruct.left = <<>>

C8_MotifParam ==
    fnOut # NoValue =>
        /\ fnOut.param.type = fnIn.type
        /\ fnOut.param.type \in {1, 2} => fnOut.param.n \in 3..8
        /\ fnOut.param.type = 1 => fnOut.param.count = fnOut.param.n
        /\ fnOut.param.type = 2 => fnOut.param.count = fnOut.param.n + 1
        /\ fnOut.param.type = 3 =>
              /\ fnOut.param.k \in 1..3
              /\ fnOut.param.n \in 3..5
              /\ fnOut.param.count = fnOut.param.k * fnOut.param.n
        /\ fnOut.param.count <= fnIn.maxPoints
        /\ Len(fnOut.structPts) = fnOut.param.count

\* a ring+center motif was built that uses all of its maxPoints
C8_Witness ==
    /\ fnOut # NoValue
    /\ fnIn.type = 2
    /\ fnOut.param.count = fnIn.maxPoints
    /\ Len(fnOut.structPts) = fnIn.maxPoints

\* C9: the three counts of allocateByArea sum to N for every N >= 1; for
\* N >= 3 every count is at least 1 and is 1 + floor((N - 3) * area / sumArea)
\* or one more.
C9_Allocation ==
    fnOut # NoValue =>
        /\ fnOut.left + fnOut.mid + fnOut.right = fnIn.totalN
        /\ fnIn.totalN >= 3 =>
              \A k \in Regions :
                  /\ fnOut[k] >= 1
                  /\ fnOut[k] - (1 + (((fnIn.totalN - 3) * fnIn.areas[k])
                                      \div (fnIn.areas.left + fnIn.areas.mid
                                            + fnIn.areas.right)))
                     \in {0, 1}

\* an allocation for unequal areas in which one region was given an extra
\* unit and another was not
C9_Witness ==
    /\ fnOut # NoValue
    /\ fnIn.totalN >= 5
    /\ fnIn.areas.left # fnIn.areas.right
    /\ \E k \in Regions :
          fnOut[k] = 2 + (((fnIn.totalN - 3) * fnIn.areas[k])
                          \div (fnIn.areas.left + fnIn.areas.mid
                                + fnIn.areas.right))
    /\ \E k \in Regions :
          fnOut[k] = 1 + (((fnIn.totalN - 3) * fnIn.areas[k])
                          \div (fnIn.areas.left + fnIn.areas.mid
                                + fnIn.areas.right))

Rotations(poly) ==
    {[i \in 1..Len(poly) |-> poly[((i - 1 + r) % Len(poly)) + 1]] :
        r \in 0..(Len(poly) - 1)}

\* every vertex of poly satisfies a*x + b*y <= c for every plane
AllInside(poly, planes) ==
    \A i \in 1..Len(poly) : \A j \in 1..Len(planes) :
        PlaneValue(poly[i], planes[j]) <= 0

\* C11: clipping a polygon whose vertices all satisfy every half-plane of
\* the region returns the same vertices in the same cyclic order: none is
\* added, dropped or moved, only the starting vertex may differ
C11_ClipKeepsInsidePolygon ==
    (fnIn # NoValue /\ fnIn.fn = "clipPolyByPlanes" /\ fnOut # NoValue
        /\ AllInside(fnIn.poly, fnIn.planes))
    => fnOut.poly \in Rotations(fnIn.poly)

\* a triangle of positive area inside the region, one vertex on a boundary
C11_Witness ==
    /\ fnIn # NoValue /\ fnIn.fn = "clipPolyByPlanes" /\ fnOut # NoValue
    /\ AllInside(fnIn.poly, fnIn.planes)
    /\ Len(fnIn.poly) = 3
    /\ Cardinality({fnIn.poly[i] : i \in 1..3}) = 3
    /\ ~(\E pl \in {fnIn.planes[i] : i \in 1..Len(fnIn.planes)} :
            \A i \in 1..3 : PlaneValue(fnIn.poly[i], pl) = 0)
    /\ \E i \in 1..3 : \E j \in 1..Len(fnIn.planes) :
            PlaneValue(fnIn.poly[i], fnIn.planes[j]) = 0
    /\ fnOut.poly # fnIn.poly


LinesReturned ==
    fnIn # NoValue /\ fnIn.fn = "generateParallelLines" /\ fnOut # NoValue

\* C17: for every three draws the cut positions satisfy
\* minT < t1 < t2 < maxT, each of the three widths t1 - minT, t2 - t1 and
\* maxT - t2 is at least 18% of L = maxT - minT, and the widths sum to L
C17_BandWidths ==
    LinesReturned =>
        LET l == fnOut.lines
            L == l.maxT - l.minT
            w0 == l.t1 - l.minT
            w1 == l.t2 - l.t1
            w2 == l.maxT - l.t2
        IN  /\ l.minT < l.t1 /\ l.t1 < l.t2 /\ l.t2 < l.maxT
            /\ 100 * w0 >= 18 * L
            /\ 100 * w1 >= 18 * L
            /\ 100 * w2 >= 18 * L
            /\ w0 + w1 + w2 = L

\* the third draw is 0 and the other two are the largest: the last band is
\* as narrow as the draws can make it
C17_Witness ==
    /\ LinesReturned
    /\ fnIn.ds[2] = <<65535, 65535>>
    /\ fnIn.ds[3] = <<65535, 65535>>
    /\ fnIn.ds[4] = <<0, 0>>
    /\ 100 * (fnOut.lines.maxT - fnOut.lines.t2)
           < 19 * (fnOut.lines.maxT - fnOut.lines.minT)

SquarePts(size) == {Pt(x, y) : x \in 0..size, y \in 0..size}

\* n . p of a point with integer coordinates
Along(lines, p) == lines.nx * p[1] + lines.ny * p[2]

\* C18: the three half-plane sets partition the square: every point of the
\* square satisfies at least one of left, mid and right; a point satisfies
\* two of them only if it lies on a cut line; left and right share no point
C18_RegionsPartition ==
    LinesReturned =>
        \A p \in SquarePts(fnIn.size) :
            LET inL == isInsideAllPlanes(p, fnOut.planes.left)
                inM == isInsideAllPlanes(p, fnOut.planes.mid)
                inR == isInsideAllPlanes(p, fnOut.planes.right)
            IN  /\ inL \/ inM \/ inR
                /\ (inL /\ inM) => Along(fnOut.lines, p) = fnOut.lines.t1
                /\ (inM /\ inR) => Along(fnOut.lines, p) = fnOut.lines.t2
                /\ ~(inL /\ inR)

\* tilted cut lines, with a point of the square on each of them
C18_Witness ==
    /\ LinesReturned
    /\ fnOut.lines.nx # 0
    /\ \E p \in SquarePts(fnIn.size) :
          /\ isInsideAllPlanes(p, fnOut.planes.left)
          /\ isInsideAllPlanes(p, fnOut.planes.mid)
    /\ \E p \in SquarePts(fnIn.size) :
          /\ isInsideAllPlanes(p, fnOut.planes.mid)
          /\ isInsideAllPlanes(p, fnOut.planes.right)


CellsReturned ==
    fnIn # NoValue /\ fnIn.fn = "buildCellsForRegion" /\ fnOut # NoValue

\* C12: buildCellsForRegion returns exactly one cell per input site, each
\* with a polygon of at least 3 vertices and a centroid, whatever the
\* provider returns for a site (a polygon, fewer than 3 vertices, null) and
\* whether or not clipping leaves fewer than 3 vertices
C12_OneCellPerSite ==
    CellsReturned =>
        /\ Len(fnOut.cells) = Len(fnIn.points)
        /\ \A i \in 1..Len(fnOut.cells) :
              /\ Len(fnOut.cells[i].poly) >= 3
              /\ Len(fnOut.cells[i].centroid.at) >= 1

\* two sites: the provider has no polygon for one of them, and clipping the
\* polygon of the other leaves nothing
C12_Witness ==
    /\ CellsReturned
    /\ Len(fnIn.points) = 2
    /\ fnIn.raws[1] = Null
    /\ fnIn.raws[2] # Null /\ Len(fnIn.raws[2]) >= 4
    /\ clipPolyByPlanes(cleanD3Polygon(fnIn.raws[2]),
                        makeRegionPlanes(fnIn.size, fnIn.lines)[fnIn.key]) = Null
    /\ Len(fnOut.cells) = 2

InSquare(p, size) ==
    /\ 0 <= p[1] /\ p[1] <= size * p[3]
    /\ 0 <= p[2] /\ p[2] <= size * p[3]

InFinal == fin # NoValue

FixedSites == {i \in 1..Len(fnIn.points) : fnIn.fixedMask[i]}

\* C14: lloydRelaxInRegionAnchored never changes the position of an
\* anchored site: after any number of iterations, its duplicate nudging and
\* zone pushes included, and also when the site coincides with a free or
\* with another anchored site, it is where it was given
C14_LloydKeepsAnchored ==
    (InFinal /\ fin.step = "lloyd") =>
        \A i \in FixedSites : fin.pts[i] = fnIn.points[i]

\* two iterations ran on an anchored site that coincided with a free site
\* given before it, and the free site moved
C14_Witness ==
    /\ InFinal /\ fin.step = "lloyd" /\ fin.t = 2
    /\ \E i \in FixedSites : \E j \in 1..Len(fnIn.points) :
          /\ j < i /\ j \notin FixedSites
          /\ fnIn.points[j] = fnIn.points[i]
          /\ fin.pts[j] # fnIn.points[j]
          /\ fin.pts[i] = fnIn.points[i]

\* C15: anchored sites never move during separation: every site whose
\* fixedMask entry is true has the same coordinates after
\* enforceMinDistanceAnchored as before it
C15_SeparationKeepsAnchored ==
    (InFinal /\ fin.step \in {"cells", "done"}) =>
        \A i \in FixedSites : fin.pts[i] = fin.sepIn[i]

\* the shortfall that counts as numerical: a tenth of minDist
SmallTolerance(minDist) == minDist \div 10

\* C16: after enforceMinDistanceAnchored returns, every pair of sites of
\* the region is at distance at least minDist, up to a small tolerance
C16_MinDistanceHolds ==
    (InFinal /\ fin.step \in {"cells", "done"}) =>
        \A i \in 1..Len(fin.pts) : \A j \in 1..Len(fin.pts) :
            (i < j /\ fin.minDist > 0) =>
                LET least == fin.minDist - SmallTolerance(fin.minDist)
                IN  Dist2(fin.pts[i], fin.pts[j]) >= least * least

\* the operations of enforceMinDistanceAnchored among the operations so far
SepOps == SelectSeq(fin.ops, LAMBDA o : o \in {"zones", "sweep", "nudge"})

\* C19: the last operations of enforceMinDistanceAnchored are pure
\* separation sweeps: no zone push and no nudge comes after the final two
\* sweeps; no step modifies a site between its return and
\* buildCellsForRegion; every Lloyd iteration comes before the separation
C19_SweepsLast ==
    (InFinal /\ fin.step \in {"cells", "done"}) =>
        /\ SepOps # <<>> =>
              /\ Len(SepOps) >= 2
              /\ SepOps[Len(SepOps)] = "sweep"
              /\ SepOps[Len(SepOps) - 1] = "sweep"
        /\ \A a \in 1..Len(fin.ops) : \A b \in 1..Len(fin.ops) :
              (fin.ops[a] = "lloyd" /\ fin.ops[b] # "lloyd") => a < b
        /\ fin.pts = fin.returned
        /\ fin.step = "done" =>
              /\ fnOut.sites = fin.returned
              /\ fin.ops[Len(fin.ops)] = "cells"
              /\ Len(fin.ops) >= 2 => fin.ops[Len(fin.ops) - 1] \in {"sweep", "lloyd"}

\* Lloyd ran, the separation nudged duplicates apart in its main passes,
\* and the cells were built
C19_Witness ==
    /\ InFinal /\ fin.step = "done"
    /\ \E a \in 1..Len(fin.ops) : fin.ops[a] = "lloyd"
    /\ \E a \in 1..Len(fin.ops) : fin.ops[a] = "zones"
    /\ \E a \in 1..Len(fin.ops) : fin.ops[a] = "nudge"
    /\ fin.pts # fin.sepIn


\* C20: before the truncate/pad step the cells of the three regions are
\* already N, for every N >= 1 and every draw: each region ends with
\* exactly its quota of sites, so the truncate/pad branch is never taken
C20_QuotaMetBeforeFix ==
    pc = "fix" =>
        /\ Len(cellsAll) = N
        /\ \A k \in Regions : Len(pts[k]) = alloc[k]

\* usedS at the start of iteration i of the assignment loop: the counts of
\* the motifs placed before it
RECURSIVE UsedBefore(_)
UsedBefore(i) == IF i <= 1 THEN 0 ELSE UsedBefore(i - 1) + motifParams[i - 1].count

\* cap - leave of iteration i: the quota of the hosting region less the
\* remainder kept for non-structured points
QuotaLessReserve(type, allocN) ==
    Max(0, allocN) - Min(2, Max(0, Max(0, allocN) - motifMinPoints(type)))

\* C21: every motif placed by buildBoard has at most min(quota of its region
\* less the non-structured reserve, remaining global budget less the minimum
\* owed to the motifs not yet placed) points, and so never more points than
\* the quota of the region that hosts it.
C21_MotifWithinCap ==
    MotifsAssigned =>
        \A i \in 1..Len(motifParams) :
            /\ motifParams[i].count
                  <= Min(QuotaLessReserve(motifPlan[i], alloc[targetRegions[i]]),
                         Smax(N) - UsedBefore(i) - MinRemain(motifPlan, i + 1))
            /\ motifParams[i].count <= alloc[targetRegions[i]]

BisectReturned == bis # NoValue /\ bis.pc = "returned"

FxBetween(u, v, x) ==
    \/ FxLeq(u, x) /\ FxLeq(x, v)
    \/ FxLeq(v, x) /\ FxLeq(x, u)

\* the point r lies on the segment from a to p, the coordinates of a and p
\* being integers: (r - a) x (p - a) = 0 and r is between a and p
OnSegment(a, p, r) ==
    /\ FxScale((p[2][1] - a[2][1]) \div W16, FxAdd(r[1], FxScale(-1, a[1])))
         = FxScale((p[1][1] - a[1][1]) \div W16, FxAdd(r[2], FxScale(-1, a[2])))
    /\ FxBetween(a[1], p[1], r[1])
    /\ FxBetween(a[2], p[2], r[2])

\* C22: clampToPlanesByBisection returns p itself when p satisfies every
\* half-plane; otherwise, the anchor satisfying every half-plane, it runs
\* exactly 32 iterations and returns a point that satisfies every
\* half-plane (as isInsidePlane tests it) and lies on the segment from the
\* anchor to p.
C22_BisectionClamps ==
    BisectReturned =>
        IF FxInsideAllPlanes(fnIn.p, fnIn.planes)
        THEN fnOut = fnIn.p /\ bis.steps = 0
        ELSE /\ bis.steps = 32
             /\ FxInsideAllPlanes(fnOut, fnIn.planes)
             /\ OnSegment(fnIn.insidePoint, fnIn.p, fnOut)

\* a call returned, after its iterations, a point that is neither the anchor
\* nor p
C22_Witness ==
    /\ BisectReturned
    /\ ~FxInsideAllPlanes(fnIn.p, fnIn.planes)
    /\ bis.steps = 32
    /\ fnOut # fnIn.insidePoint
    /\ fnOut # fnIn.p
    /\ FxInsideAllPlanes(fnOut, fnIn.planes)

Running == run # NoValue

\* the counters of the loops stay within the bounds the code gives them
LoopBounds ==
    Running =>
        /\ run.extra >= 0 /\ run.idx <= run.N
        /\ run.mi <= 3
        /\ run.walk <= MarginIters
        /\ run.tries <= NudgeTries
        /\ run.t <= run.relaxIters
        /\ run.pass <= Passes
        /\ run.k <= 4 /\ run.s <= 4 /\ run.candN <= 64 /\ run.ct <= run.candN
        /\ run.i <= Max(64, 2 * run.N + 9) /\ run.j <= 2 * run.N + 10
        /\ run.cells <= 2 * run.N + 9

\* C23: for every N >= 1 buildBoard terminates; every loop runs a number of
\* turns bounded by N and the configuration (bisection 32, margin walk 28,
\* 24 nudge tries per duplicate, relaxIters iterations, 5 separation passes,
\* the allocation loops), whatever the tests on coordinates answer.
C23_Terminates == []LoopBounds /\ <>(Running /\ run.at = "return")

\* a call for 40 pieces with relaxIters = 2 returned: every loop on its way
\* came to its end
C23_Witness ==
    /\ Running
    /\ run.at = "return"
    /\ run.N = 40
    /\ run.relaxIters = 2
    /\ run.usedS > 0
    /\ run.cells = run.N


\* step 8 of the call is over
RlxDone == rlx # NoValue /\ rlx.at \in {"sep", "return"}

\* max(0, trunc(v)) of a finite number, and 1 for any other value
TruncIters(v) ==
    IF v.kind = "number" THEN (IF v.neg THEN <<0, 0>> ELSE v.int) ELSE <<0, 1>>

\* trunc(v) is an int32
InInt32(v) == v.kind = "number" => v.int[1] < 32768

\* C24 as stated: each region gets exactly max(0, trunc(relaxIters)) Lloyd
\* iterations when relaxIters is a finite number and exactly 1 otherwise
C24_RelaxCount ==
    RlxDone => \A k \in Regions : <<0, rlx.runs[k]>> = TruncIters(rlx.value)

\* C24: each region gets exactly max(0, (relaxIters | 0)) Lloyd iterations when
\* relaxIters is a finite number, which is max(0, trunc(relaxIters)) when the
\* truncated value is below 2^31 in magnitude, and exactly 1 when relaxIters is
\* absent or not a finite number; when the count is 0 the step is skipped and
\* no site is moved by it
C24_RelaxCountInt32 ==
    RlxDone =>
        /\ \A k \in Regions :
              /\ <<0, rlx.runs[k]>>
                    = (IF rlx.value.kind = "number"
                       THEN MaxZero(OrZero(rlx.value)) ELSE <<0, 1>>)
              /\ InInt32(rlx.value) => <<0, rlx.runs[k]>> = TruncIters(rlx.value)
        /\ rlx.relaxIters = <<0, 0>> =>
              rlx.runs = ZeroRegions /\ ~rlx.moved /\ rlx.pts = RelaxSites

\* a call with relaxIters = 2.5 ran two iterations on each region and moved
\* sites
C24_Witness ==
    /\ RlxDone
    /\ rlx.value = JsNumber(FALSE, <<0, 2>>, 5)
    /\ rlx.runs = [k \in Regions |-> 2]
    /\ rlx.moved


\* the site p is outside the zone z: at distance >= z.r from its centre
OutsideZone(p, z) ==
    (p[1] - z.cx) * (p[1] - z.cx) + (p[2] - z.cy) * (p[2] - z.cy) >= z.r * z.r

\* C25: after each iteration of the relaxation every site that is not anchored
\* lies outside every exclusion zone of its region, the sites that were clamped
\* back into the region after the push included
C25_FreeSitesOutsideZones ==
    (fin # NoValue /\ fin.ops # <<>> /\ fin.ops[Len(fin.ops)] = "lloyd") =>
        \A i \in 1..Len(fin.pts) :
            IsFixed(fnIn.fixedMask, i)
            \/ \A k \in 1..Len(fnIn.zones) : OutsideZone(fin.pts[i], fnIn.zones[k])


\* a Lloyd iteration has run: rlx.from holds the sites its Voronoi diagram was
\* computed over, rlx.before the sites of the three regions at that time
LloydRan == rlx # NoValue /\ rlx.from # <<>>

\* the region of the last Lloyd iteration
LloydRegion == rlx.of

\* C26 as stated: the Voronoi diagram of an iteration is computed over the
\* sites of all three regions together
C26_VoronoiOverAllSites ==
    LloydRan => rlx.from = AllSites(rlx.before)

\* C26: the Voronoi diagram of an iteration is computed over the sites of the
\* region being relaxed alone, as they are at that time; the sites of the two
\* other regions take no part and are not changed by the iteration
C26_VoronoiOverRegionSites ==
    LloydRan =>
        /\ rlx.from = rlx.before[LloydRegion]
        /\ rlx.from # AllSites(rlx.before)
        /\ \A k \in Regions \ {LloydRegion} : rlx.pts[k] = rlx.before[k]

\* the second iteration on the middle region, after the left region's sites
\* moved: its diagram is over the two sites of the middle region
C26_Witness ==
    /\ LloydRan
    /\ LloydRegion = "mid"
    /\ rlx.runs.mid = 2
    /\ rlx.before.left # RelaxSites.left
    /\ Len(rlx.from) = 2
    /\ rlx.pts.mid # rlx.before.mid


\* the page is under study
Page == game # NoValue

\* C27: in every state of the page current = next - 1 and 1 <= next <= total +
\* 1; next changes only by a click on the cell numbered next while the game is
\* PLAYING, which adds 1 to it, or by the start of a new game (Start, New),
\* which sets it to 1
C27_Counters ==
    /\ [](Page => /\ game.current = game.next - 1
                  /\ 1 <= game.next /\ game.next <= game.total + 1)
    /\ [][(Page /\ game'.next # game.next) =>
             \/ /\ game'.last = "cell"
                /\ game.state = PLAYING
                /\ game'.next = game.next + 1
             \/ /\ game'.last \in {"start", "new"}
                /\ game'.next = 1]_vars

\* the last cell of a game of 12 was clicked: next is total + 1
C27_Witness ==
    /\ Page
    /\ game.last = "cell"
    /\ game.total = 12
    /\ game.next = 13
    /\ game.current = 12

\* C28: the interval of the HUD is set (timerId is not null) exactly when the
\* game is PLAYING, and the page never holds more than one interval
C28_TimerWhenPlaying ==
    Page =>
        /\ game.timerId # NullTimer <=> game.state = PLAYING
        /\ Cardinality(game.intervals) <= 1
        /\ game.intervals = (IF game.timerId = NullTimer THEN {} ELSE {game.timerId})

\* a game that was paused and is resumed: PLAYING again with one interval
C28_Witness ==
    /\ Page
    /\ game.last = "pause"
    /\ game.state = PLAYING
    /\ game.timerId # NullTimer
    /\ game.next > 1
    /\ game.elapsedMs > 0

\* C29: a click on a cell that is not the next one while PLAYING adds
\* wrongPenaltySec seconds to the elapsed time and leaves next, current and
\* state as they are; a cell click in any other state changes nothing
C29_WrongClick ==
    [][(Page /\ game'.last \in {"cell", "other cell"}) =>
          /\ (game'.last = "other cell" /\ game.state = PLAYING) =>
                /\ game'.elapsedMs = game.elapsedMs + 1000 * game.config.wrongPenaltySec
                /\ Elapsed(game') = Elapsed(game) + 1000 * WRONG_PENALTY_SEC
                /\ game'.next = game.next
                /\ game'.current = game.current
                /\ game'.state = game.state
          /\ game.state # PLAYING => game' = [game EXCEPT !.last = game'.last]]_vars

\* a second wrong click in a game that runs: 20 seconds of penalty
C29_Witness ==
    /\ Page
    /\ game.last = "other cell"
    /\ game.state = PLAYING
    /\ game.elapsedMs = 2000 * WRONG_PENALTY_SEC
    /\ game.next > 1

\* C30: a game is FINISHED exactly from the click on its last cell on (the
\* total-th right click since it began), whatever wrong clicks and pauses came
\* between; a FINISHED game stays FINISHED under cell clicks and Pause and is
\* left by New and Back only
C30_FinishedAtLastClick ==
    /\ [](Page => /\ game.state = FINISHED =>
                       game.next = game.total + 1 /\ game.current = game.total
                  /\ game.state \in {PLAYING, PAUSED} => game.next <= game.total)
    /\ [][Page =>
             /\ (game.state # FINISHED /\ game'.state = FINISHED) =>
                   /\ game'.last = "cell"
                   /\ game.state = PLAYING
                   /\ game.next = game.total
             /\ (game.state = FINISHED /\ game'.last \in {"cell", "other cell", "pause"})
                   => game'.state = FINISHED
             /\ (game.state = FINISHED /\ game'.state # FINISHED) =>
                   game'.last \in {"new", "back"}]_vars

\* Pause was clicked on a finished game of 12 that had a wrong click
C30_Witness ==
    /\ Page
    /\ game.state = FINISHED
    /\ game.last = "pause"
    /\ game.total = 12
    /\ game.elapsedMs >= 1000 * WRONG_PENALTY_SEC

=============================================================================
